---- MODULE Spec2Model ----
(***************************************************************************)
(* A model of the WebTerm terminal emulator (class WebTerminal).  Two      *)
(* variants of the class exist in the repository: the single-distro one    *)
(* (src/script.js) and the multi-distro one (src/unnamed/part_001).  The   *)
(* variable variant says which of the two a behaviour runs.              *)
(*                                                                         *)
(* JavaScript strings are modelled as sequences of characters (one-char    *)
(* TLA+ strings).  A fixed message text the program never looks into is    *)
(* written as one opaque unit, e.g. <<"cat: ">>.  A JavaScript object is   *)
(* an ordered sequence of [k, v] entries (own properties in iteration      *)
(* order); property reads also see what Object.prototype supplies.         *)
(***************************************************************************)
EXTENDS Integers, Sequences, FiniteSets, TLC

(***************************************************************************)
(* Strings                                                                 *)
(***************************************************************************)

\* /\s/ : the white space characters used in the model's inputs
IsWS(c) == c \in {" ", "\t"}

RECURSIVE TrimStart(_)
TrimStart(s) == IF s # <<>> /\ IsWS(Head(s)) THEN TrimStart(Tail(s)) ELSE s

RECURSIVE TrimEnd(_)
TrimEnd(s) ==
    IF s # <<>> /\ IsWS(s[Len(s)]) THEN TrimEnd(SubSeq(s, 1, Len(s) - 1)) ELSE s

\* String.prototype.trim
Trim(s) == TrimEnd(TrimStart(s))

\* index of the first white space character of s, 0 when there is none
FirstWS(s) ==
    LET I == {i \in 1..Len(s) : IsWS(s[i])}
    IN  IF I = {} THEN 0 ELSE CHOOSE i \in I : \A j \in I : i <= j

\* s.split(/\s+/)
RECURSIVE SplitWS(_)
SplitWS(s) ==
    LET i == FirstWS(s)
    IN  IF i = 0 THEN <<s>>
        ELSE <<SubSeq(s, 1, i - 1)>> \o SplitWS(TrimStart(SubSeq(s, i, Len(s))))

\* s.startsWith(p)
StartsWith(s, p) == Len(p) <= Len(s) /\ SubSeq(s, 1, Len(p)) = p

\* s.endsWith(p)
EndsWith(s, p) == Len(p) <= Len(s) /\ SubSeq(s, Len(s) - Len(p) + 1, Len(s)) = p

UpperChars == <<"A","B","C","D","E","F","G","H","I","J","K","L","M",
                "N","O","P","Q","R","S","T","U","V","W","X","Y","Z">>
LowerChars == <<"a","b","c","d","e","f","g","h","i","j","k","l","m",
                "n","o","p","q","r","s","t","u","v","w","x","y","z">>

LowerChar(c) ==
    IF \E i \in 1..Len(UpperChars) : UpperChars[i] = c
    THEN LowerChars[CHOOSE i \in 1..Len(UpperChars) : UpperChars[i] = c]
    ELSE c

\* String.prototype.toLowerCase
ToLowerCase(s) == [i \in 1..Len(s) |-> LowerChar(s[i])]

\* s.indexOf(pat) + 1 : position of the first occurrence of pat, 0 when none
IndexOf(s, pat) ==
    LET I == {i \in 1..(Len(s) - Len(pat) + 1) : SubSeq(s, i, i + Len(pat) - 1) = pat}
    IN  IF I = {} THEN 0 ELSE CHOOSE i \in I : \A j \in I : i <= j

\* GetSubstitution of String.prototype.replace for a string pattern: the
\* replacement text with its dollar patterns expanded: "$$" gives "$", "$&" the
\* matched text, "$" followed by a quote the text after the match (there are
\* no captures; the pattern for the text before the match is not modelled)
RECURSIVE GetSubstitution(_, _, _, _)
GetSubstitution(rep, matched, before, after) ==
    IF rep = <<>> THEN <<>>
    ELSE IF Head(rep) = "$" /\ Len(rep) >= 2 /\ rep[2] \in {"$", "&", "'"}
         THEN LET rest == GetSubstitution(SubSeq(rep, 3, Len(rep)), matched, before, after)
              IN  CASE rep[2] = "$" -> <<"$">> \o rest
                    [] rep[2] = "&" -> matched \o rest
                    [] OTHER        -> after \o rest
         ELSE <<Head(rep)>> \o GetSubstitution(Tail(rep), matched, before, after)

\* s.replace(pat, rep) with a string pattern: the first occurrence only
Replace(s, pat, rep) ==
    LET i == IndexOf(s, pat)
    IN  IF i = 0 THEN s
        ELSE LET before == SubSeq(s, 1, i - 1)
                 after  == SubSeq(s, i + Len(pat), Len(s))
             IN  before \o GetSubstitution(rep, pat, before, after) \o after

\* array.join(sep)
RECURSIVE Join(_, _)
Join(strs, sep) ==
    IF strs = <<>> THEN <<>>
    ELSE IF Len(strs) = 1 THEN strs[1]
    ELSE strs[1] \o sep \o Join(Tail(strs), sep)

\* s.split('/').filter(part => part !== '')
RECURSIVE SplitSlash(_)
SplitSlash(s) ==
    LET i == IndexOf(s, <<"/">>)
    IN  IF s = <<>> THEN <<>>
        ELSE IF i = 0 THEN <<s>>
        ELSE IF i = 1 THEN SplitSlash(Tail(s))
        ELSE <<SubSeq(s, 1, i - 1)>> \o SplitSlash(SubSeq(s, i + 1, Len(s)))

(***************************************************************************)
(* Objects                                                                 *)
(***************************************************************************)

\* Object.keys(obj)
Keys(obj) == [i \in 1..Len(obj) |-> obj[i].k]

\* obj.hasOwnProperty(k)
HasOwn(obj, k) == \E i \in 1..Len(obj) : obj[i].k = k

\* the own property k of obj (defined when HasOwn)
Own(obj, k) == obj[CHOOSE i \in 1..Len(obj) : obj[i].k = k].v

\* obj[k] = v : an existing key keeps its place, a new key goes last
Put(obj, k, v) ==
    IF HasOwn(obj, k)
    THEN [i \in 1..Len(obj) |-> IF obj[i].k = k THEN [k |-> k, v |-> v] ELSE obj[i]]
    ELSE Append(obj, [k |-> k, v |-> v])

\* property names every object literal / JSON.parse result inherits from
\* Object.prototype; each reads as a truthy value (a function or an object)
ObjectPrototypeKeys ==
    { <<"c","o","n","s","t","r","u","c","t","o","r">>,
      <<"t","o","S","t","r","i","n","g">>,
      <<"v","a","l","u","e","O","f">>,
      <<"h","a","s","O","w","n","P","r","o","p","e","r","t","y">>,
      <<"_","_","p","r","o","t","o","_","_">> }

\* whether the read obj[k] yields a truthy value (own values are objects)
Truthy(obj, k) == HasOwn(obj, k) \/ k \in ObjectPrototypeKeys

(***************************************************************************)
(* String literals of the program and of the sample configurations         *)
(***************************************************************************)

s_cd == <<"c","d">>
s_mkdir == <<"m","k","d","i","r">>
s_touch == <<"t","o","u","c","h">>
s_rm == <<"r","m">>
s_date == <<"d","a","t","e">>
s_history == <<"h","i","s","t","o","r","y">>
s_theme == <<"t","h","e","m","e">>
s_clear == <<"c","l","e","a","r">>
s_whoami == <<"w","h","o","a","m","i">>
s_pwd == <<"p","w","d">>
s_help == <<"h","e","l","p">>
s_echo == <<"e","c","h","o">>
s_cat == <<"c","a","t">>
s_ls == <<"l","s">>
s_ls_a == <<"l","s"," ","-","a">>
s_switch_distro == <<"s","w","i","t","c","h","-","d","i","s","t","r","o">>
s_clearScreen == <<"c","l","e","a","r","S","c","r","e","e","n">>
s_showDate == <<"s","h","o","w","D","a","t","e">>
s_showHistory == <<"s","h","o","w","H","i","s","t","o","r","y">>
s_toggleTheme == <<"t","o","g","g","l","e","T","h","e","m","e">>
s_changeDirectory == <<"c","h","a","n","g","e","D","i","r","e","c","t","o","r","y">>
s_makeDirectory == <<"m","a","k","e","D","i","r","e","c","t","o","r","y">>
s_createFile == <<"c","r","e","a","t","e","F","i","l","e">>
s_removeFile == <<"r","e","m","o","v","e","F","i","l","e">>
s_switchDistro == <<"s","w","i","t","c","h","D","i","s","t","r","o">>
s_listDistros == <<"l","i","s","t","D","i","s","t","r","o","s">>
s_tilde == <<"~">>
s_slash == <<"/">>
s_dslash == <<"/","/">>
s_dot == <<".">>
s_cmd == <<"{","c","m","d","}">>
s_home == <<"/","h","o","m","e","/">>
s_home_user == <<"/","h","o","m","e","/","u","s","e","r">>
s_arch == <<"a","r","c","h">>
s_deb == <<"d","e","b">>
s_a_txt == <<"a",".","t","x","t">>
s_dark == <<"d","a","r","k">>

(***************************************************************************)
(* Configuration data: what fetch() delivers.  The JSON files themselves   *)
(* are not part of the sources; the samples below follow the format the    *)
(* README documents and the fields the code reads.                         *)
(***************************************************************************)

NoOutput == [kind |-> "none", lines |-> <<>>]
StrOutput(line) == [kind |-> "string", lines |-> <<line>>]
ArrOutput(lines) == [kind |-> "array", lines |-> lines]

\* a command descriptor {description, output, action}; <<>> is an absent field
Cmd(description, output, action) ==
    [description |-> description, output |-> output, action |-> action]

Entry(k, v) == [k |-> k, v |-> v]

\* config/distro_manager.json
DistroManager ==
    [ defaultDistro |-> s_arch,
      distributions |-> << Entry(s_arch, [name |-> <<"Arch Linux">>]),
                           Entry(s_deb,  [name |-> <<"Debian">>]) >> ]

\* the configuration of the distribution "arch" (also the arch_config.json of
\* the single-distro variant)
ConfigArch ==
    [ system |-> [ user |-> <<"u","s","e","r">>,
                   commandNotFound |-> <<"bash: ">> \o s_cmd \o <<": command not found">> ],
      filesystem |-> << Entry(s_tilde, <<s_a_txt, <<"s","u","b","/">> >>),
                        Entry(<<"~","/","s","u","b">>, << <<"b",".","t","x","t">> >>) >>,
      files |-> << Entry(s_a_txt, <<"hello">>) >>,
      motd |-> << <<"Welcome to Arch Linux">> >>,
      commands |-> <<
          Entry(s_help,   Cmd(<<"Show help">>, NoOutput, <<>>)),
          Entry(s_ls,     Cmd(<<"List files">>, NoOutput, <<>>)),
          Entry(s_ls_a,   Cmd(<<"List all files">>, ArrOutput(<< <<".  ..  .bashrc">>, <<"a.txt">> >>), <<>>)),
          Entry(s_cat,    Cmd(<<"Print a file">>, NoOutput, <<>>)),
          Entry(s_echo,   Cmd(<<"Print text">>, NoOutput, <<>>)),
          Entry(s_pwd,    Cmd(<<"Print working directory">>, StrOutput(<<"/stale">>), <<>>)),
          Entry(s_whoami, Cmd(<<"Print user">>, StrOutput(<<"nobody">>), <<>>)),
          Entry(s_date,   Cmd(<<"Distro date">>, StrOutput(<<"Mon Jan 1">>), <<>>)),
          Entry(<<"s","y","s","t","e","m","d","-","d","e","t","e","c","t","-","v","i","r","t">>,
                Cmd(<<"Detect virtualization">>, StrOutput(<<"none">>), <<>>)) >> ]

\* the configuration of the distribution "deb"
ConfigDeb ==
    [ system |-> [ user |-> <<"b","o","b">>,
                   commandNotFound |-> <<"-bash: ">> \o s_cmd \o <<": not found">> ],
      filesystem |-> << Entry(<<"~","/","d","o","c","s","/">>,
                              << <<"n",".","t","x","t">>, <<"d","e","e","p","/">> >>),
                        Entry(<<"~","/","e","t","c">>, << <<"h","o","s","t","s">> >>),
                        Entry(s_tilde, << <<"d","o","c","s","/">>, <<"e","t","c","/">>, s_a_txt>>) >>,
      files |-> << Entry(s_a_txt, <<"hello">>) >>,
      motd |-> << <<"Welcome to Debian">> >>,
      commands |-> <<
          Entry(s_ls,     Cmd(<<"List files">>, NoOutput, <<>>)),
          Entry(s_pwd,    Cmd(<<>>, NoOutput, <<>>)),
          Entry(<<"X","o","r","g">>,   Cmd(<<"X server">>, StrOutput(<<"X.Org X Server">>), <<>>)),
          Entry(<<"a","p","t">>, Cmd(<<"Package manager">>, StrOutput(<<"Reading package lists...">>),
                                     <<"i","n","s","t","a","l","l">>)),
          Entry(s_clear,  Cmd(<<"Distro clear">>, NoOutput, s_clearScreen)),
          Entry(s_switch_distro, Cmd(<<"Distro switch">>, StrOutput(<<"not supported">>), <<>>)) >> ]

\* the configuration file of a distribution of the registry
ConfigOf(distro) == IF distro = s_deb THEN ConfigDeb ELSE ConfigArch


(***************************************************************************)
(* File system                                                             *)
(***************************************************************************)

DirNode(contents, parent) ==
    [type |-> "directory", contents |-> contents, content |-> <<>>, parent |-> parent]

FileNode(content, parent) ==
    [type |-> "file", contents |-> <<>>, content |-> content, parent |-> parent]

\* the file system the single-distro constructor builds in
BuiltinFileSystem ==
    << Entry(s_home_user,
             DirNode(<< <<"R","E","A","D","M","E",".","m","d">>,
                        <<"n","o","t","e","s",".","t","x","t">>,
                        <<"p","r","o","j","e","c","t","s">> >>,
                     <<"/","h","o","m","e">>)),
       Entry(s_home_user \o <<"/","p","r","o","j","e","c","t","s">>,
             DirNode(<< <<"s","e","c","r","e","t","-","p","r","o","j","e","c","t">>,
                        <<"o","l","d","-","s","t","u","f","f">> >>,
                     s_home_user)),
       Entry(s_home_user \o <<"/","R","E","A","D","M","E",".","m","d">>,
             FileNode(<<"Welcome to the interactive web terminal!">>, s_home_user)),
       Entry(s_home_user \o <<"/","n","o","t","e","s",".","t","x","t">>,
             FileNode(<<"Todo:">>, s_home_user)) >>

\* getParentPath
GetParentPath(path) ==
    LET parts == SplitSlash(path)
    IN  IF Len(parts) <= 1 THEN s_slash
        ELSE s_slash \o Join(SubSeq(parts, 1, Len(parts) - 1), s_slash)

\* contents.filter(item => !item.endsWith('/')).map(item => item.replace('/', ''))
PlainEntries(contents) ==
    LET kept == SelectSeq(contents, LAMBDA item : ~EndsWith(item, s_slash))
    IN  [i \in 1..Len(kept) |-> Replace(kept[i], s_slash, <<>>)]

\* contents.filter(item => item.endsWith('/'))
SubdirEntries(contents) == SelectSeq(contents, LAMBDA item : EndsWith(item, s_slash))

\* the forEach over the '/'-suffixed entries of one declared directory
RECURSIVE AddSubdirs(_, _, _)
AddSubdirs(fs, fullPath, dirs) ==
    IF dirs = <<>> THEN fs
    ELSE LET dirName == Replace(Head(dirs), s_slash, <<>>)
             dirPath == fullPath \o s_slash \o dirName
         IN  AddSubdirs(Put(fs, dirPath, DirNode(<<>>, fullPath)), fullPath, Tail(dirs))

\* the loop over Object.entries(this.config.filesystem)
RECURSIVE AddDirectories(_, _, _)
AddDirectories(fs, user, decls) ==
    IF decls = <<>> THEN fs
    ELSE LET fullPath == Replace(Head(decls).k, s_tilde, s_home \o user)
             contents == Head(decls).v
             fs1 == Put(fs, fullPath, DirNode(PlainEntries(contents), GetParentPath(fullPath)))
         IN  AddDirectories(AddSubdirs(fs1, fullPath, SubdirEntries(contents)), user, Tail(decls))

\* the loop over Object.entries(this.config.files)
RECURSIVE AddFiles(_, _, _)
AddFiles(fs, user, files) ==
    IF files = <<>> THEN fs
    ELSE AddFiles(Put(fs, s_home \o user \o s_slash \o Head(files).k,
                      FileNode(Head(files).v, s_home \o user)),
                  user, Tail(files))

\* setupFileSystemFromConfig
SetupFileSystemFromConfig(config) ==
    AddFiles(AddDirectories(<<>>, config.system.user, config.filesystem),
             config.system.user, config.files)

(***************************************************************************)
(* Command table                                                           *)
(***************************************************************************)

\* core defaults that bring a help entry of their own
CoreCommandsWithBuiltins ==
    << Entry(s_help,    Cmd(<<"Show available commands">>, NoOutput, <<>>)),
       Entry(s_cd,      Cmd(<<"Change the current directory">>, NoOutput, s_changeDirectory)),
       Entry(s_mkdir,   Cmd(<<"Create a new directory">>, NoOutput, s_makeDirectory)),
       Entry(s_touch,   Cmd(<<"Create a new file">>, NoOutput, s_createFile)),
       Entry(s_rm,      Cmd(<<"Remove files or directories">>, NoOutput, s_removeFile)),
       Entry(s_date,    Cmd(<<"Display the current date and time">>, NoOutput, s_showDate)),
       Entry(s_history, Cmd(<<"Show command history">>, NoOutput, s_showHistory)),
       Entry(s_theme,   Cmd(<<"Toggle between light and dark themes">>, NoOutput, s_toggleTheme)),
       Entry(s_clear,   Cmd(<<"Clear the terminal screen">>, NoOutput, s_clearScreen)) >>

\* coreCommands of the multi-distro enhanceConfig
CoreCommands ==
    << Entry(s_cd,      Cmd(<<"Change the current directory">>, NoOutput, s_changeDirectory)),
       Entry(s_mkdir,   Cmd(<<"Create a new directory">>, NoOutput, s_makeDirectory)),
       Entry(s_touch,   Cmd(<<"Create a new file">>, NoOutput, s_createFile)),
       Entry(s_rm,      Cmd(<<"Remove files or directories">>, NoOutput, s_removeFile)),
       Entry(s_date,    Cmd(<<"Display the current date and time">>, NoOutput, s_showDate)),
       Entry(s_history, Cmd(<<"Show command history">>, NoOutput, s_showHistory)),
       Entry(s_theme,   Cmd(<<"Toggle between light and dark themes">>, NoOutput, s_toggleTheme)),
       Entry(s_clear,   Cmd(<<"Clear the terminal screen">>, NoOutput, s_clearScreen)) >>

\* additionalCommands of the single-distro enhanceConfig
AdditionalCommands(user) ==
    << Entry(s_cd,      Cmd(<<"Change the current directory">>, NoOutput, s_changeDirectory)),
       Entry(s_mkdir,   Cmd(<<"Create a new directory">>, NoOutput, s_makeDirectory)),
       Entry(s_touch,   Cmd(<<"Create a new file">>, NoOutput, s_createFile)),
       Entry(s_rm,      Cmd(<<"Remove files or directories">>, NoOutput, s_removeFile)),
       Entry(s_whoami,  Cmd(<<"Print the current username">>, StrOutput(user), <<>>)),
       Entry(s_date,    Cmd(<<"Display the current date and time">>, NoOutput, s_showDate)),
       Entry(s_history, Cmd(<<"Show command history">>, NoOutput, s_showHistory)),
       Entry(s_theme,   Cmd(<<"Toggle between light and dark themes">>, NoOutput, s_toggleTheme)),
       Entry(s_clear,   Cmd(<<"Clear the terminal screen">>, NoOutput, s_clearScreen)) >>

SwitchDistroCmd == Cmd(<<"Switch to a different Linux distribution">>, NoOutput, s_switchDistro)
ListDistrosCmd  == Cmd(<<"List available Linux distributions">>, NoOutput, s_listDistros)

\* for (const [cmd, info] of Object.entries(coreCommands))
\*     if (!this.config.commands[cmd]) this.config.commands[cmd] = info;
RECURSIVE MergeCore(_, _)
MergeCore(commands, core) ==
    IF core = <<>> THEN commands
    ELSE MergeCore(IF ~Truthy(commands, Head(core).k)
                   THEN Put(commands, Head(core).k, Head(core).v)
                   ELSE commands,
                   Tail(core))

\* { ...a, ...b }
RECURSIVE Spread(_, _)
Spread(a, b) == IF b = <<>> THEN a ELSE Spread(Put(a, Head(b).k, Head(b).v), Tail(b))

\* if (commands[k]) commands[k].output = value   (an inherited value is left
\* as it is: the assignment then lands on a function of Object.prototype)
StampOutput(commands, k, value) ==
    IF HasOwn(commands, k)
    THEN Put(commands, k, [Own(commands, k) EXCEPT !.output = StrOutput(value)])
    ELSE commands

\* an enhanceConfig that adds the two distro commands like the core commands:
\* only when the configuration declares none of that name
EnhanceConfigMultiKeeping(commands, user, currentPath) ==
    LET c2 == MergeCore(commands,
                        << Entry(s_switch_distro, SwitchDistroCmd),
                           Entry(<<"l","i","s","t","-","d","i","s","t","r","o","s">>, ListDistrosCmd) >>)
        c3 == MergeCore(c2, CoreCommands)
        c4 == StampOutput(c3, s_whoami, user)
    IN  StampOutput(c4, s_pwd, currentPath)

\* enhanceConfig of the multi-distro variant
EnhanceConfigMulti(commands, user, currentPath) ==
    LET c1 == Put(commands, s_switch_distro, SwitchDistroCmd)
        c2 == Put(c1, <<"l","i","s","t","-","d","i","s","t","r","o","s">>, ListDistrosCmd)
        c3 == MergeCore(c2, CoreCommands)
        c4 == StampOutput(c3, s_whoami, user)
    IN  StampOutput(c4, s_pwd, currentPath)

\* enhanceConfig of the single-distro variant
EnhanceConfigSingle(commands, user) == Spread(commands, AdditionalCommands(user))


(***************************************************************************)
(* The terminal object.  The operators below take the record t of the      *)
(* fields of one WebTerminal (this) and return the record after the call.  *)
(*   out        : the lines the current event handler has rendered         *)
(*   dispatched : what the current handler's executeCommand call did       *)
(*   lastOp     : the routine the current event handler ran                *)
(***************************************************************************)

NoDispatch ==
    [how |-> "none", key |-> <<>>, handler |-> <<>>, count |-> 0, hlen |-> 0, hidx |-> 0]

\* the number of suggestions getCommandSuggestions keeps: .slice(0, 5)
SuggestLimit == 5

\* the column the descriptions of help start at: 15 - cmd.length
HelpColumn == 15

\* the width of the history index: padStart(3)
HistoryPad == 3

Min(a, b) == IF a <= b THEN a ELSE b
Max(a, b) == IF a >= b THEN a ELSE b

\* ' '.repeat(n)
Spaces(n) == [i \in 1..n |-> " "]

Digit(d) == <<"0","1","2","3","4","5","6","7","8","9">>[d + 1]

\* Number.prototype.toString for n >= 0
RECURSIVE NumStr(_)
NumStr(n) == IF n < 10 THEN <<Digit(n)>> ELSE NumStr(n \div 10) \o <<Digit(n % 10)>>

\* s.padStart(n)
PadStart(s, n) == Spaces(Max(0, n - Len(s))) \o s

\* args[0]; <<>> stands for undefined
Arg0(args) == IF args = <<>> THEN <<>> ELSE args[1]

\* obj[k]: the own value, else what Object.prototype supplies (a function or
\* an object: it has no description, output or action)
ValueOf(obj, k) == IF HasOwn(obj, k) THEN Own(obj, k) ELSE Cmd(<<>>, NoOutput, <<>>)

\* this.fileSystem[path]: the own node, else what Object.prototype supplies
NodeOf(fs, path) ==
    IF HasOwn(fs, path) THEN Own(fs, path)
    ELSE [type |-> "inherited", contents |-> <<>>, content |-> <<>>, parent |-> <<>>]

\* renderLine
RenderLine(t, text, className) ==
    [t EXCEPT !.out = Append(@, [text |-> text, className |-> className])]

RECURSIVE RenderLines(_, _)
RenderLines(t, lines) ==
    IF lines = <<>> THEN t ELSE RenderLines(RenderLine(t, Head(lines), ""), Tail(lines))

\* hideSuggestions
HideSuggestions(t) ==
    [t EXCEPT !.suggestionsShown = FALSE, !.suggestions = <<>>,
              !.selectedSuggestionIndex = -1]

\* getCommandSuggestions
GetCommandSuggestions(commands, input) ==
    LET matched == SelectSeq(Keys(commands), LAMBDA cmd : StartsWith(cmd, ToLowerCase(input)))
        kept    == SubSeq(matched, 1, Min(SuggestLimit, Len(matched)))
    IN  [i \in 1..Len(kept) |->
            [command |-> kept[i],
             description |-> IF Own(commands, kept[i]).description # <<>>
                             THEN Own(commands, kept[i]).description
                             ELSE <<"No description">>]]

\* renderSuggestions
RenderSuggestions(t, suggestions) ==
    [t EXCEPT !.suggestionItems = Len(suggestions), !.suggestionsShown = TRUE,
              !.selectedSuggestionIndex = -1]

\* showSuggestions
ShowSuggestions(t, input) ==
    LET matches == GetCommandSuggestions(t.commands, input)
        t1 == [t EXCEPT !.suggestions = matches]
    IN  IF Len(matches) = 0 THEN HideSuggestions(t1) ELSE RenderSuggestions(t1, matches)

\* navigateSuggestions without the wraparound at the last item
NavigateSuggestionsNoWrap(t, direction) ==
    LET n == t.suggestionItems
        i == t.selectedSuggestionIndex
    IN  IF n = 0 THEN t
        ELSE IF direction = "up"
             THEN [t EXCEPT !.selectedSuggestionIndex = IF i <= 0 THEN n - 1 ELSE i - 1]
             ELSE [t EXCEPT !.selectedSuggestionIndex = i + 1]

\* navigateSuggestions
NavigateSuggestions(t, direction) ==
    LET n == t.suggestionItems
        i == t.selectedSuggestionIndex
    IN  IF n = 0 THEN t
        ELSE IF direction = "up"
             THEN [t EXCEPT !.selectedSuggestionIndex = IF i <= 0 THEN n - 1 ELSE i - 1]
             ELSE [t EXCEPT !.selectedSuggestionIndex = IF i >= n - 1 THEN 0 ELSE i + 1]

\* applySuggestion without the call of hideSuggestions
ApplySuggestionKeep(t) ==
    IF t.selectedSuggestionIndex >= 0 /\ t.selectedSuggestionIndex < Len(t.suggestions)
    THEN [t EXCEPT !.inputValue = t.suggestions[t.selectedSuggestionIndex + 1].command]
    ELSE t

\* applySuggestion
ApplySuggestion(t) ==
    IF t.selectedSuggestionIndex >= 0 /\ t.selectedSuggestionIndex < Len(t.suggestions)
    THEN HideSuggestions([t EXCEPT !.inputValue = t.suggestions[t.selectedSuggestionIndex + 1].command])
    ELSE t

\* handleTabCompletion
HandleTabCompletion(t) ==
    LET suggestions == GetCommandSuggestions(t.commands, t.inputValue)
    IN  IF Len(suggestions) = 1
        THEN HideSuggestions([t EXCEPT !.inputValue = suggestions[1].command])
        ELSE IF Len(suggestions) > 1 THEN ShowSuggestions(t, t.inputValue)
        ELSE t

\* navigateHistory reading the entry at the cursor it had before the move
NavigateHistoryStale(t, direction) ==
    IF Len(t.commandHistory) = 0 THEN t
    ELSE LET idx == IF direction = "up"
                    THEN (IF t.historyIndex > 0 THEN t.historyIndex - 1 ELSE t.historyIndex)
                    ELSE (IF t.historyIndex < Len(t.commandHistory)
                          THEN t.historyIndex + 1 ELSE t.historyIndex)
             command == IF t.historyIndex < Len(t.commandHistory)
                        THEN t.commandHistory[t.historyIndex + 1] ELSE <<>>
         IN  [t EXCEPT !.historyIndex = idx, !.inputValue = command]

\* navigateHistory without the upper bound on the cursor
NavigateHistoryPastEnd(t, direction) ==
    IF Len(t.commandHistory) = 0 THEN t
    ELSE LET idx == IF direction = "up"
                    THEN (IF t.historyIndex > 0 THEN t.historyIndex - 1 ELSE t.historyIndex)
                    ELSE t.historyIndex + 1
             command == IF idx < Len(t.commandHistory) THEN t.commandHistory[idx + 1] ELSE <<>>
         IN  [t EXCEPT !.historyIndex = idx, !.inputValue = command]

\* navigateHistory
NavigateHistory(t, direction) ==
    IF Len(t.commandHistory) = 0 THEN t
    ELSE LET idx == IF direction = "up"
                    THEN (IF t.historyIndex > 0 THEN t.historyIndex - 1 ELSE t.historyIndex)
                    ELSE (IF t.historyIndex < Len(t.commandHistory)
                          THEN t.historyIndex + 1 ELSE t.historyIndex)
             command == IF idx < Len(t.commandHistory) THEN t.commandHistory[idx + 1] ELSE <<>>
         IN  [t EXCEPT !.historyIndex = idx, !.inputValue = command]

\* a resolvePath without the case for '.'
ResolvePathNoDot(t, path) ==
    IF path = <<>> THEN t.currentPath
    ELSE IF StartsWith(path, s_slash) THEN path
    ELSE IF path = <<".",".">>
         THEN IF Truthy(t.fileSystem, t.currentPath)
              THEN (IF NodeOf(t.fileSystem, t.currentPath).parent # <<>>
                    THEN NodeOf(t.fileSystem, t.currentPath).parent
                    ELSE t.currentPath)
              ELSE t.currentPath
    ELSE Replace(t.currentPath \o s_slash \o path, s_dslash, s_slash)

\* resolvePath
ResolvePath(t, path) ==
    IF path = <<>> THEN t.currentPath
    ELSE IF StartsWith(path, s_slash) THEN path
    ELSE IF path = <<".",".">>
         THEN IF Truthy(t.fileSystem, t.currentPath)
              THEN (IF NodeOf(t.fileSystem, t.currentPath).parent # <<>>
                    THEN NodeOf(t.fileSystem, t.currentPath).parent
                    ELSE t.currentPath)
              ELSE t.currentPath
    ELSE IF path = s_dot THEN t.currentPath
    ELSE Replace(t.currentPath \o s_slash \o path, s_dslash, s_slash)


(***************************************************************************)
(* Command handlers                                                        *)
(***************************************************************************)

\* showHelp
ShowHelp(t) ==
    LET head == RenderLine(RenderLine(t, <<"Available Commands:">>, "output-success"),
                           <<"----">>, "")
        line(e) == <<" ", " ">> \o e.k \o Spaces(Max(0, HelpColumn - Len(e.k)))
                   \o (IF e.v.description # <<>> THEN e.v.description ELSE <<"No description">>)
        body == RenderLines(head, [i \in 1..Len(t.commands) |-> line(t.commands[i])])
    IN  RenderLines(body, << <<>>, <<"Tips:">>, <<"  Use Tab for auto-completion">>,
                             <<"  Use arrows for command history">>,
                             <<"  Type theme to toggle dark/light mode">> >>)

\* listDistros
RECURSIVE ListDistroLines(_, _, _)
ListDistroLines(t, currentDistro, distros) ==
    IF distros = <<>> THEN t
    ELSE LET key == Head(distros).k
             cur == key = currentDistro
             t1 == RenderLine(t, <<"  ">> \o Head(distros).v.name
                                 \o (IF cur THEN <<" (current)">> ELSE <<>>),
                              IF cur THEN "output-success" ELSE "")
             t2 == RenderLines(t1, << <<"     description">>,
                                      <<"     Command: switch-distro ">> \o key, <<>> >>)
         IN  ListDistroLines(t2, currentDistro, Tail(distros))

ListDistros(t) ==
    LET head == RenderLine(RenderLine(t, <<"Available Linux Distributions:">>, "output-success"),
                           <<"----">>, "")
        body == ListDistroLines(head, t.currentDistro, DistroManager.distributions)
    IN  RenderLines(body, << <<"Usage: switch-distro <distro-name>">>,
                             <<"   Example: switch-distro ubuntu">> >>)

\* switchDistro
SwitchDistro(t, distroName) ==
    IF distroName = <<>>
    THEN RenderLine(RenderLine(t, <<"Usage: switch-distro <distro-name>">>, "output-error"),
                    <<"Available distros: ">> \o Join(Keys(DistroManager.distributions), <<",", " ">>), "")
    ELSE IF ~Truthy(DistroManager.distributions, distroName)
    THEN RenderLine(RenderLine(t, <<"Unknown distribution: ">> \o distroName, "output-error"),
                    <<"Use list-distros to see available options">>, "")
    ELSE IF distroName = t.currentDistro
    THEN RenderLine(t, <<"Already using ">> \o distroName, "output-success")
    ELSE [RenderLine(t, <<"Switching to ">> \o distroName, "output-success")
            EXCEPT !.storedDistro = distroName, !.urlDistro = distroName,
                   !.reloadPending = TRUE]

\* a handleCat that prints the content field of whatever node it finds
HandleCatAnyNode(t, args) ==
    IF Len(args) = 0 THEN RenderLine(t, <<"cat: missing file operand">>, "output-error")
    ELSE LET fileName == args[1]
             filePath == ResolvePath(t, fileName)
         IN  IF ~Truthy(t.fileSystem, filePath)
             THEN RenderLine(t, <<"cat: ">> \o fileName \o <<": No such file or directory">>,
                             "output-error")
             ELSE RenderLine(t, NodeOf(t.fileSystem, filePath).content, "")

\* handleCat
HandleCat(t, args) ==
    IF Len(args) = 0 THEN RenderLine(t, <<"cat: missing file operand">>, "output-error")
    ELSE LET fileName == args[1]
             filePath == ResolvePath(t, fileName)
         IN  IF ~Truthy(t.fileSystem, filePath)
             THEN RenderLine(t, <<"cat: ">> \o fileName \o <<": No such file or directory">>,
                             "output-error")
             ELSE IF NodeOf(t.fileSystem, filePath).type # "file"
             THEN RenderLine(t, <<"cat: ">> \o fileName \o <<": Is a directory">>, "output-error")
             ELSE RenderLine(t, NodeOf(t.fileSystem, filePath).content, "")

\* a handleLs that marks every child as a file
HandleLsAllFiles(t, args) ==
    LET targetPath == IF Len(args) > 0 THEN ResolvePath(t, args[1]) ELSE t.currentPath
        dirObj == NodeOf(t.fileSystem, targetPath)
    IN  IF ~Truthy(t.fileSystem, targetPath)
        THEN RenderLine(t, <<"ls: cannot access '">>
                           \o (IF Arg0(args) # <<>> THEN Arg0(args) ELSE s_dot)
                           \o <<"': No such file or directory">>, "output-error")
        ELSE IF dirObj.type # "directory"
        THEN RenderLine(t, <<"ls: ">> \o Arg0(args) \o <<": Not a directory">>, "output-error")
        ELSE IF Len(dirObj.contents) = 0 THEN t
        ELSE RenderLine(t, Join([i \in 1..Len(dirObj.contents) |->
                                    <<"[file] ">> \o dirObj.contents[i]], <<" ", " ">>), "")

\* handleLs
HandleLs(t, args) ==
    LET targetPath == IF Len(args) > 0 THEN ResolvePath(t, args[1]) ELSE t.currentPath
        dirObj == NodeOf(t.fileSystem, targetPath)
        item(name) ==
            LET itemPath == Replace(targetPath \o s_slash \o name, s_dslash, s_slash)
            IN  IF Truthy(t.fileSystem, itemPath) /\ NodeOf(t.fileSystem, itemPath).type = "directory"
                THEN <<"[dir] ">> \o name \o s_slash
                ELSE <<"[file] ">> \o name
    IN  IF ~Truthy(t.fileSystem, targetPath)
        THEN RenderLine(t, <<"ls: cannot access '">>
                           \o (IF Arg0(args) # <<>> THEN Arg0(args) ELSE s_dot)
                           \o <<"': No such file or directory">>, "output-error")
        ELSE IF dirObj.type # "directory"
        THEN RenderLine(t, <<"ls: ">> \o Arg0(args) \o <<": Not a directory">>, "output-error")
        ELSE IF Len(dirObj.contents) = 0 THEN t
        ELSE RenderLine(t, Join([i \in 1..Len(dirObj.contents) |-> item(dirObj.contents[i])],
                                <<" ", " ">>), "")

\* a changeDirectory that enters whatever node the path resolves to
ChangeDirectoryUnchecked(t, path) ==
    IF path = <<>> \/ path = s_tilde THEN [t EXCEPT !.currentPath = s_home_user]
    ELSE LET targetPath == ResolvePath(t, path)
         IN  IF ~Truthy(t.fileSystem, targetPath)
             THEN RenderLine(t, <<"cd: ">> \o path \o <<": No such file or directory">>,
                             "output-error")
             ELSE [t EXCEPT !.currentPath = targetPath]

\* changeDirectory
ChangeDirectory(t, path) ==
    IF path = <<>> \/ path = s_tilde THEN [t EXCEPT !.currentPath = s_home_user]
    ELSE LET targetPath == ResolvePath(t, path)
         IN  IF ~Truthy(t.fileSystem, targetPath)
             THEN RenderLine(t, <<"cd: ">> \o path \o <<": No such file or directory">>,
                             "output-error")
             ELSE IF NodeOf(t.fileSystem, targetPath).type # "directory"
             THEN RenderLine(t, <<"cd: ">> \o path \o <<": Not a directory">>, "output-error")
             ELSE [t EXCEPT !.currentPath = targetPath]

\* a showHistory that numbers the entries by their array index
ShowHistoryFromZero(t) ==
    IF Len(t.commandHistory) = 0 THEN RenderLine(t, <<"No commands in history">>, "")
    ELSE RenderLines(RenderLine(t, <<"Command History:">>, ""),
                     [i \in 1..Len(t.commandHistory) |->
                        <<" ", " ">> \o PadStart(NumStr(i - 1), HistoryPad) \o <<" ">>
                        \o t.commandHistory[i]])

\* showHistory
ShowHistory(t) ==
    IF Len(t.commandHistory) = 0 THEN RenderLine(t, <<"No commands in history">>, "")
    ELSE RenderLines(RenderLine(t, <<"Command History:">>, ""),
                     [i \in 1..Len(t.commandHistory) |->
                        <<" ", " ">> \o PadStart(NumStr(i), HistoryPad) \o <<" ">>
                        \o t.commandHistory[i]])

\* toggleTheme (with applyTheme, which saves the preference)
ToggleTheme(t) ==
    LET theme == IF t.currentTheme = s_dark THEN <<"l","i","g","h","t">> ELSE s_dark
    IN  RenderLine([t EXCEPT !.currentTheme = theme, !.storedTheme = theme],
                   <<"Switched to ">> \o theme \o <<" theme">>, "output-success")

\* clearScreen
ClearScreen(t) == [t EXCEPT !.out = <<>>]

\* a makeDirectory that adds the directory to the tree
MakeDirectoryReal(t, name) ==
    IF name = <<>> THEN RenderLine(t, <<"mkdir: missing operand">>, "output-error")
    ELSE RenderLine([t EXCEPT !.fileSystem = Put(@, ResolvePath(t, name),
                                                 DirNode(<<>>, t.currentPath))],
                    <<"Created directory: ">> \o name, "output-success")

\* makeDirectory
MakeDirectory(t, name) ==
    IF name = <<>> THEN RenderLine(t, <<"mkdir: missing operand">>, "output-error")
    ELSE RenderLine(t, <<"Created directory: ">> \o name, "output-success")

\* createFile
CreateFile(t, name) ==
    IF name = <<>> THEN RenderLine(t, <<"touch: missing operand">>, "output-error")
    ELSE RenderLine(t, <<"Created file: ">> \o name, "output-success")

\* removeFile
RemoveFile(t, name) ==
    IF name = <<>> THEN RenderLine(t, <<"rm: missing operand">>, "output-error")
    ELSE RenderLine(t, <<"Removed: ">> \o name, "output-warning")


(***************************************************************************)
(* Dispatch                                                                *)
(***************************************************************************)

\* the case labels of the action switch of handleCommand
ActionTags(variant) ==
    {s_clearScreen, s_showDate, s_showHistory, s_toggleTheme, s_changeDirectory,
     s_makeDirectory, s_createFile, s_removeFile}
    \cup (IF variant = "multi" THEN {s_switchDistro, s_listDistros} ELSE {})

\* the case labels of the built-in switch of handleCommand
BuiltinNames == {s_help, s_echo, s_cat, s_ls, s_pwd}

\* the body of one case of the action switch
RunAction(t, action, args) ==
    CASE action = s_clearScreen     -> ClearScreen(t)
      [] action = s_showDate        -> RenderLine(t, <<"<date>">>, "")
      [] action = s_showHistory     -> ShowHistory(t)
      [] action = s_toggleTheme     -> ToggleTheme(t)
      [] action = s_changeDirectory -> ChangeDirectory(t, Arg0(args))
      [] action = s_makeDirectory   -> MakeDirectory(t, Arg0(args))
      [] action = s_createFile      -> CreateFile(t, Arg0(args))
      [] action = s_removeFile      -> RemoveFile(t, Arg0(args))
      [] action = s_switchDistro    -> SwitchDistro(t, Arg0(args))
      [] OTHER                      -> ListDistros(t)

\* a built-in switch whose pwd prints the static output of the table entry
RunBuiltinStamped(t, command, args) ==
    CASE command = s_help -> ShowHelp(t)
      [] command = s_echo -> RenderLine(t, Join(args, <<" ">>), "")
      [] command = s_cat  -> HandleCat(t, args)
      [] command = s_ls   -> HandleLs(t, args)
      [] OTHER            -> IF ValueOf(t.commands, s_pwd).output.kind = "string"
                             THEN RenderLine(t, ValueOf(t.commands, s_pwd).output.lines[1], "")
                             ELSE t

\* the body of one case of the built-in switch
RunBuiltin(t, command, args) ==
    CASE command = s_help -> ShowHelp(t)
      [] command = s_echo -> RenderLine(t, Join(args, <<" ">>), "")
      [] command = s_cat  -> HandleCat(t, args)
      [] command = s_ls   -> HandleLs(t, args)
      [] OTHER            -> RenderLine(t, t.currentPath, "")

\* the default case: the static output of the descriptor
RunOutput(t, cmdObj) ==
    IF cmdObj.output.kind = "array" THEN RenderLines(t, cmdObj.output.lines)
    ELSE IF cmdObj.output.kind = "string" /\ cmdObj.output.lines[1] # <<>>
    THEN RenderLine(t, cmdObj.output.lines[1], "")
    ELSE t

\* handleCommand
HandleCommand(t, cmdObj, args, command) ==
    IF cmdObj.action # <<>> /\ cmdObj.action \in ActionTags(t.variant)
    THEN RunAction([t EXCEPT !.dispatched.handler = cmdObj.action], cmdObj.action, args)
    ELSE IF command \in BuiltinNames
    THEN RunBuiltin([t EXCEPT !.dispatched.handler = command], command, args)
    ELSE RunOutput([t EXCEPT !.dispatched.handler = <<"output">>], cmdObj)

\* executeCommand
ExecuteCommand(t, command, args, fullCommand) ==
    LET called(how, key) ==
            [t EXCEPT !.dispatched = [how |-> how, key |-> key, handler |-> <<>>,
                                      count |-> t.commandCount,
                                      hlen |-> Len(t.commandHistory),
                                      hidx |-> t.historyIndex]]
    IN  IF Truthy(t.commands, fullCommand)
        THEN HandleCommand(called("full", fullCommand), ValueOf(t.commands, fullCommand),
                           args, fullCommand)
        ELSE IF Truthy(t.commands, command)
        THEN HandleCommand(called("base", command), ValueOf(t.commands, command),
                           args, command)
        ELSE RenderLine(called("notfound", command),
                        Replace(t.system.commandNotFound, s_cmd, command), "output-error")

\* the history update without the comparison with the last entry
PushHistoryAlways(history, fullCommand) == Append(history, fullCommand)

\* if (this.commandHistory[this.commandHistory.length - 1] !== fullCommand)
\*     this.commandHistory.push(fullCommand);
PushHistory(history, fullCommand) ==
    IF history = <<>> \/ history[Len(history)] # fullCommand
    THEN Append(history, fullCommand)
    ELSE history

\* processCommand with the call of executeCommand moved before the updates
\* of the history, the cursor and the counter
ProcessCommandLate(t) ==
    LET fullCommand == Trim(t.inputValue)
        t0 == RenderLine(t, <<"<prompt>", " ">> \o fullCommand, "output-command")
        t1 == IF fullCommand # <<>>
              THEN LET tokens == SplitWS(fullCommand)
                       t01 == ExecuteCommand(t0, Head(tokens), Tail(tokens), fullCommand)
                       hist == PushHistory(t01.commandHistory, fullCommand)
                   IN  [t01 EXCEPT !.commandHistory = hist,
                                   !.historyIndex = Len(hist),
                                   !.commandCount = @ + 1]
              ELSE t0
    IN  HideSuggestions([t1 EXCEPT !.inputValue = <<>>, !.lastOp = "processCommand"])

\* processCommand with the counter advanced before the test for an empty line
ProcessCommandCountsBlank(t) ==
    LET fullCommand == Trim(t.inputValue)
        t0 == [RenderLine(t, <<"<prompt>", " ">> \o fullCommand, "output-command")
                 EXCEPT !.commandCount = @ + 1]
        t1 == IF fullCommand # <<>>
              THEN LET hist == PushHistory(t0.commandHistory, fullCommand)
                       t01 == [t0 EXCEPT !.commandHistory = hist,
                                         !.historyIndex = Len(hist)]
                       tokens == SplitWS(fullCommand)
                   IN  ExecuteCommand(t01, Head(tokens), Tail(tokens), fullCommand)
              ELSE t0
    IN  HideSuggestions([t1 EXCEPT !.inputValue = <<>>, !.lastOp = "processCommand"])

\* processCommand with the line recorded in the history after its command ran
ProcessCommandListsFirst(t) ==
    LET fullCommand == Trim(t.inputValue)
        t0 == RenderLine(t, <<"<prompt>", " ">> \o fullCommand, "output-command")
        t1 == IF fullCommand # <<>>
              THEN LET tokens == SplitWS(fullCommand)
                       t01 == ExecuteCommand([t0 EXCEPT !.commandCount = @ + 1],
                                             Head(tokens), Tail(tokens), fullCommand)
                       hist == PushHistory(t01.commandHistory, fullCommand)
                   IN  [t01 EXCEPT !.commandHistory = hist, !.historyIndex = Len(hist)]
              ELSE t0
    IN  HideSuggestions([t1 EXCEPT !.inputValue = <<>>, !.lastOp = "processCommand"])

\* processCommand
ProcessCommand(t) ==
    LET fullCommand == Trim(t.inputValue)
        t0 == RenderLine(t, <<"<prompt>", " ">> \o fullCommand, "output-command")
        t1 == IF fullCommand # <<>>
              THEN LET hist == PushHistory(t0.commandHistory, fullCommand)
                       t01 == [t0 EXCEPT !.commandHistory = hist,
                                         !.historyIndex = Len(hist),
                                         !.commandCount = @ + 1]
                       tokens == SplitWS(fullCommand)
                   IN  ExecuteCommand(t01, Head(tokens), Tail(tokens), fullCommand)
              ELSE t0
    IN  HideSuggestions([t1 EXCEPT !.inputValue = <<>>, !.lastOp = "processCommand"])

\* interruptCommand
InterruptCommand(t) ==
    HideSuggestions([RenderLine(t, <<"^C">>, "output-warning")
                       EXCEPT !.inputValue = <<>>, !.lastOp = "interruptCommand"])

\* handleKeyDown
HandleKeyDown(t, key) ==
    CASE key = "Enter" ->
            IF t.selectedSuggestionIndex >= 0
            THEN ApplySuggestion([t EXCEPT !.lastOp = "applySuggestion"])
            ELSE ProcessCommand(t)
      [] key = "Tab" -> HandleTabCompletion([t EXCEPT !.lastOp = "handleTabCompletion"])
      [] key = "ArrowUp" ->
            IF Len(t.suggestions) > 0 /\ t.suggestionsShown
            THEN NavigateSuggestions([t EXCEPT !.lastOp = "navigateSuggestions:up"], "up")
            ELSE NavigateHistory([t EXCEPT !.lastOp = "navigateHistory:up"], "up")
      [] key = "ArrowDown" ->
            IF Len(t.suggestions) > 0 /\ t.suggestionsShown
            THEN NavigateSuggestions([t EXCEPT !.lastOp = "navigateSuggestions:down"], "down")
            ELSE NavigateHistory([t EXCEPT !.lastOp = "navigateHistory:down"], "down")
      [] key = "Escape" -> HideSuggestions([t EXCEPT !.lastOp = "hideSuggestions"])
      [] OTHER -> t

\* handleInput, with the wrapper debounce() returns: a non-empty value
\* replaces the pending call, an empty one hides the suggestions and leaves
\* the timer alone
HandleInput(t, value) ==
    IF Len(value) > 0
    THEN [t EXCEPT !.inputValue = value, !.timeout = <<value>>, !.lastOp = "handleInput"]
    ELSE HideSuggestions([t EXCEPT !.inputValue = value, !.lastOp = "handleInput"])

\* the timer callback of debounce(): later()
Later(t) == ShowSuggestions([t EXCEPT !.timeout = <<>>, !.lastOp = "showSuggestions"], t.timeout[1])

\* the click listener renderSuggestions puts on item number index
ClickSuggestion(t, index) ==
    ApplySuggestion([t EXCEPT !.selectedSuggestionIndex = index, !.lastOp = "click"])


(***************************************************************************)
(* State                                                                   *)
(***************************************************************************)

VARIABLES
    variant,                  \* "single" (script.js) or "multi" (part_001)
    phase,                    \* how far init() has come: "manager", "config",
                              \* "setup", "ready" (listeners attached), "failed"
    rawCommands,              \* config.commands as fetched, before enhanceConfig
    commands,                 \* this.config.commands
    system,                   \* this.config.system
    fileSystem,               \* this.fileSystem
    currentPath,              \* this.currentPath
    commandHistory,           \* this.commandHistory
    historyIndex,             \* this.historyIndex
    commandCount,             \* this.commandCount
    currentTheme,             \* this.currentTheme
    suggestions,              \* this.suggestions
    selectedSuggestionIndex,  \* this.selectedSuggestionIndex
    suggestionsShown,         \* elements.suggestions.classList.contains('show')
    suggestionItems,          \* number of .suggestion-item children of elements.suggestions
    inputValue,               \* elements.commandInput.value
    out,                      \* lines rendered by the latest event handler
    dispatched,               \* the executeCommand call of the latest handler
    lastOp,                   \* the routine the latest event handler ran
    timeout,                  \* the pending debounce timer: <<>> or <<its argument>>
    reloadPending,            \* whether some setTimeout(() => window.location.reload(), 1000)
                              \* of switchDistro is pending (the first to fire ends them all)
    currentDistro,            \* this.currentDistro
    storedDistro,             \* localStorage 'terminal-distro' (<<>> when absent)
    storedTheme,              \* localStorage 'terminal-theme' (<<>> when absent)
    urlDistro,                \* URL parameter distro (<<>> when absent)
    pageLoads,                \* how many times the page has been reloaded
    trace                     \* the user's events so far, in the scripted scenarios

vars == <<variant, phase, rawCommands, commands, system, fileSystem, currentPath,
          commandHistory, historyIndex, commandCount, currentTheme, suggestions,
          selectedSuggestionIndex, suggestionsShown, suggestionItems, inputValue, out,
          dispatched, lastOp, timeout, reloadPending, currentDistro, storedDistro, storedTheme,
          urlDistro, pageLoads, trace>>

\* the fields of the terminal object as one record
This ==
    [variant |-> variant, commands |-> commands, system |-> system,
     fileSystem |-> fileSystem, currentPath |-> currentPath,
     commandHistory |-> commandHistory, historyIndex |-> historyIndex,
     commandCount |-> commandCount, currentTheme |-> currentTheme,
     suggestions |-> suggestions, selectedSuggestionIndex |-> selectedSuggestionIndex,
     suggestionsShown |-> suggestionsShown, suggestionItems |-> suggestionItems,
     inputValue |-> inputValue, out |-> <<>>, dispatched |-> NoDispatch,
     lastOp |-> "none",
     timeout |-> timeout, reloadPending |-> reloadPending, currentDistro |-> currentDistro,
     storedDistro |-> storedDistro, storedTheme |-> storedTheme, urlDistro |-> urlDistro]

\* the state after a handler that returned the record t
Commit(t) ==
    /\ commands' = t.commands
    /\ system' = t.system
    /\ fileSystem' = t.fileSystem
    /\ currentPath' = t.currentPath
    /\ commandHistory' = t.commandHistory
    /\ historyIndex' = t.historyIndex
    /\ commandCount' = t.commandCount
    /\ currentTheme' = t.currentTheme
    /\ suggestions' = t.suggestions
    /\ selectedSuggestionIndex' = t.selectedSuggestionIndex
    /\ suggestionsShown' = t.suggestionsShown
    /\ suggestionItems' = t.suggestionItems
    /\ inputValue' = t.inputValue
    /\ out' = t.out
    /\ dispatched' = t.dispatched
    /\ lastOp' = t.lastOp
    /\ timeout' = t.timeout
    /\ reloadPending' = t.reloadPending
    /\ currentDistro' = t.currentDistro
    /\ storedDistro' = t.storedDistro
    /\ storedTheme' = t.storedTheme
    /\ urlDistro' = t.urlDistro
    /\ variant' = t.variant

\* the state after an event handler that returned the record t
Handled(t) == Commit(t) /\ UNCHANGED <<phase, rawCommands, pageLoads, trace>>

\* the number of non-empty lines one page load may submit
MaxCommands == 1

\* the number of times the page may be reloaded
MaxReloads == 1

\* the fields the constructor sets (and the DOMContentLoaded listener: the
\* saved theme), given what the browser keeps across page loads
Fresh(v, theme, distro, url) ==
    [variant |-> v, commands |-> <<>>,
     system |-> [user |-> <<>>, commandNotFound |-> <<>>],
     fileSystem |-> IF v = "multi" THEN <<>> ELSE BuiltinFileSystem,
     currentPath |-> s_home_user, commandHistory |-> <<>>, historyIndex |-> 0,
     commandCount |-> 0, currentTheme |-> IF theme # <<>> THEN theme ELSE s_dark,
     suggestions |-> <<>>, selectedSuggestionIndex |-> -1, suggestionsShown |-> FALSE,
     suggestionItems |-> 0, inputValue |-> <<>>, out |-> <<>>, dispatched |-> NoDispatch,
     lastOp |-> "none",
     timeout |-> <<>>, reloadPending |-> FALSE, currentDistro |-> <<>>,
     storedDistro |-> distro, storedTheme |-> theme, urlDistro |-> url]

\* the saved distro preferences and URL parameters a first page load starts from
InitialStored == {<<>>, s_deb}
InitialUrl == {<<>>}

\* the state in which the terminal object is t
Started(t) ==
    /\ variant = t.variant
    /\ commands = t.commands
    /\ system = t.system
    /\ fileSystem = t.fileSystem
    /\ currentPath = t.currentPath
    /\ commandHistory = t.commandHistory
    /\ historyIndex = t.historyIndex
    /\ commandCount = t.commandCount
    /\ currentTheme = t.currentTheme
    /\ suggestions = t.suggestions
    /\ selectedSuggestionIndex = t.selectedSuggestionIndex
    /\ suggestionsShown = t.suggestionsShown
    /\ suggestionItems = t.suggestionItems
    /\ inputValue = t.inputValue
    /\ out = t.out
    /\ dispatched = t.dispatched
    /\ lastOp = t.lastOp
    /\ timeout = t.timeout
    /\ reloadPending = t.reloadPending
    /\ currentDistro = t.currentDistro
    /\ storedDistro = t.storedDistro
    /\ storedTheme = t.storedTheme
    /\ urlDistro = t.urlDistro

Init ==
    \E v \in {"single", "multi"} :
    \E distro \in (IF v = "multi" THEN InitialStored ELSE {<<>>}) :
    \E url \in (IF v = "multi" THEN InitialUrl ELSE {<<>>}) :
        /\ Started(Fresh(v, <<>>, distro, url))
        /\ phase = IF v = "multi" THEN "manager" ELSE "config"
        /\ rawCommands = <<>>
        /\ pageLoads = 0
        /\ trace = <<>>

(***************************************************************************)
(* Actions                                                                 *)
(***************************************************************************)

InitError == [text |-> <<"Error: Could not initialize terminal. Please refresh the page.">>,
              className |-> "output-error"]

\* init(), up to the end of await this.loadDistroManager() and the choice of
\* the distro; ok is whether the fetch of the registry succeeded
InitManager ==
    /\ phase = "manager"
    /\ \E ok \in BOOLEAN :
        LET wanted == IF urlDistro # <<>> THEN urlDistro
                      ELSE IF storedDistro # <<>> THEN storedDistro
                      ELSE DistroManager.defaultDistro
            chosen == IF Truthy(DistroManager.distributions, wanted)
                      THEN wanted ELSE DistroManager.defaultDistro
        IN  IF ok
            THEN /\ Commit([This EXCEPT !.currentDistro = chosen, !.storedDistro = chosen,
                                        !.lastOp = "init"])
                 /\ phase' = "config"
                 /\ UNCHANGED <<rawCommands, pageLoads, trace>>
            ELSE /\ Commit([This EXCEPT !.out = <<InitError>>, !.lastOp = "init"])
                 /\ phase' = "failed"
                 /\ UNCHANGED <<rawCommands, pageLoads, trace>>

\* a loadConfig whose failure is reported without stopping init()
LoadConfigGoesOn ==
    /\ phase = "config"
    /\ \E ok \in BOOLEAN :
        LET config == ConfigOf(currentDistro)
            user   == config.system.user
            home   == s_home \o user
        IN  IF ok /\ (variant = "multi" => HasOwn(DistroManager.distributions, currentDistro))
            THEN /\ Commit([This EXCEPT
                        !.system = config.system,
                        !.fileSystem = IF variant = "multi"
                                       THEN SetupFileSystemFromConfig(config) ELSE @,
                        !.currentPath = IF variant = "multi" THEN home ELSE @,
                        !.commands = IF variant = "multi"
                                     THEN EnhanceConfigMulti(config.commands, user, home)
                                     ELSE EnhanceConfigSingle(config.commands, user),
                        !.lastOp = "init"])
                 /\ phase' = "setup"
                 /\ rawCommands' = config.commands
                 /\ UNCHANGED <<pageLoads, trace>>
            ELSE /\ Commit([This EXCEPT !.out = <<InitError>>, !.lastOp = "init"])
                 /\ phase' = "setup"
                 /\ UNCHANGED <<rawCommands, pageLoads, trace>>

\* loadConfig(); ok is whether the fetch of the configuration succeeded (a
\* distro that is no own key of the registry has no configFile to fetch)
LoadConfig ==
    /\ phase = "config"
    /\ \E ok \in BOOLEAN :
        LET config == ConfigOf(currentDistro)
            user   == config.system.user
            home   == s_home \o user
        IN  IF ok /\ (variant = "multi" => HasOwn(DistroManager.distributions, currentDistro))
            THEN /\ Commit([This EXCEPT
                        !.system = config.system,
                        !.fileSystem = IF variant = "multi"
                                       THEN SetupFileSystemFromConfig(config) ELSE @,
                        !.currentPath = IF variant = "multi" THEN home ELSE @,
                        !.commands = IF variant = "multi"
                                     THEN EnhanceConfigMulti(config.commands, user, home)
                                     ELSE EnhanceConfigSingle(config.commands, user),
                        !.lastOp = "init"])
                 /\ phase' = "setup"
                 /\ rawCommands' = config.commands
                 /\ UNCHANGED <<pageLoads, trace>>
            ELSE /\ Commit([This EXCEPT !.out = <<InitError>>, !.lastOp = "init"])
                 /\ phase' = "failed"
                 /\ UNCHANGED <<rawCommands, pageLoads, trace>>


\* the rest of init() after the setup delay: setupEventListeners,
\* initializeUI (applyTheme saves the theme), displayMotd
FinishInit ==
    /\ phase = "setup"
    /\ Commit(RenderLines([This EXCEPT !.storedTheme = currentTheme, !.lastOp = "init"],
                          ConfigOf(currentDistro).motd
                          \o (IF variant = "multi"
                              THEN << <<>>, <<"Distribution Commands:">> >> ELSE <<>>)))
    /\ phase' = "ready"
    /\ UNCHANGED <<rawCommands, pageLoads, trace>>

\* a reload that leaves the debounce timer of the old page pending
ReloadKeepingTimer ==
    /\ reloadPending
    /\ pageLoads < MaxReloads
    /\ pageLoads' = pageLoads + 1
    /\ trace' = <<[op |-> IF timeout = <<>> THEN "reload" ELSE "reload:pending",
                  input |-> inputValue]>>
    /\ Commit([Fresh(variant, storedTheme, storedDistro, urlDistro) EXCEPT !.timeout = timeout])
    /\ phase' = IF variant = "multi" THEN "manager" ELSE "config"
    /\ rawCommands' = <<>>

\* window.location.reload(), when a timer switchDistro set fires: a new page
\* and a new terminal object; localStorage and the URL stay.  trace keeps
\* whether a debounce timer of the old page was pending, and its input value
Reload ==
    /\ reloadPending
    /\ pageLoads < MaxReloads
    /\ pageLoads' = pageLoads + 1
    /\ trace' = <<[op |-> IF timeout = <<>> THEN "reload" ELSE "reload:pending",
                  input |-> inputValue]>>
    /\ Commit(Fresh(variant, storedTheme, storedDistro, urlDistro))
    /\ phase' = IF variant = "multi" THEN "manager" ELSE "config"
    /\ rawCommands' = <<>>

\* the input event: the user changed the input value to value
Input(value) ==
    /\ phase = "ready"
    /\ Handled(HandleInput(This, value))

\* a keydown event on the input (at most maxCommands non-empty lines are
\* submitted per page load)
KeyDown(key, maxCommands) ==
    /\ phase = "ready"
    /\ (key = "Enter" /\ selectedSuggestionIndex < 0 /\ Trim(inputValue) # <<>>)
          => commandCount < maxCommands
    /\ Handled(HandleKeyDown(This, key))

\* Ctrl+C anywhere in the document
CtrlC ==
    /\ phase = "ready"
    /\ Handled(InterruptCommand(This))

\* the debounce timer fires
TimerFires ==
    /\ timeout # <<>>
    /\ Handled(Later(This))

\* a click on a suggestion item of the visible dropdown
Click(index) ==
    /\ phase = "ready"
    /\ suggestionsShown
    /\ index < suggestionItems
    /\ Handled(ClickSuggestion(This, index))

\* a click on the theme toggle button
ThemeButton ==
    /\ phase = "ready"
    /\ Handled(ToggleTheme([This EXCEPT !.lastOp = "toggleTheme"]))

\* the change listener of the distribution selector
SelectDistro(selected) ==
    /\ phase = "ready"
    /\ variant = "multi"
    /\ selected # currentDistro
    /\ Handled(SwitchDistro([This EXCEPT !.lastOp = "switchDistro"], selected))

KeyNames == {"Enter", "Tab", "ArrowUp", "ArrowDown", "Escape"}

\* one page load: init() and the events of a user who types the values of
\* Typed and submits at most maxCommands non-empty lines
Session(Typed, maxCommands) ==
    \/ InitManager
    \/ LoadConfig
    \/ FinishInit
    \/ \E value \in Typed : Input(value)
    \/ \E key \in KeyNames : KeyDown(key, maxCommands)
    \/ CtrlC
    \/ TimerFires
    \/ \E index \in 0..(SuggestLimit - 1) : Click(index)

\* the events that lead from one page load to the next, and the theme button
Switching ==
    \/ ThemeButton
    \/ \E selected \in {DistroManager.distributions[i].k :
                          i \in 1..Len(DistroManager.distributions)} : SelectDistro(selected)
    \/ Reload

\* the values typed into the input
TypedValues == { <<>>, <<"c">> }

Next == Session(TypedValues, MaxCommands) \/ Switching

Spec == Init /\ [][Next]_vars

\* one page load only: no theme button, no distro selector, no reload
NextSession == Session(TypedValues, MaxCommands)

SpecSession == Init /\ [][NextSession]_vars

(***************************************************************************)
(* The history scenarios: a user who types and submits up to               *)
(* MaxHistoryCommands lines, then presses up to MaxArrows arrow keys.      *)
(* trace records the user's events and the input value each left.          *)
(***************************************************************************)

HistoryLines == { s_ls, s_pwd, <<" ">> \o s_ls }

MaxHistoryCommands == 4

MaxArrows == 3

Logged(t) == Commit(t) /\ trace' = Append(trace, [op |-> t.lastOp, input |-> t.inputValue])
                       /\ UNCHANGED <<phase, rawCommands, pageLoads>>

ArrowsPressed == Len(SelectSeq(trace, LAMBDA e : e.op \notin {"handleInput", "processCommand"}))

LastEvent == IF trace = <<>> THEN "none" ELSE trace[Len(trace)].op

ScenarioType(value) ==
    /\ phase = "ready"
    /\ commandCount < MaxHistoryCommands
    /\ LastEvent \in {"none", "processCommand"}
    /\ Logged(HandleInput(This, value))

ScenarioEnter ==
    /\ phase = "ready"
    /\ LastEvent = "handleInput"
    /\ Logged(HandleKeyDown(This, "Enter"))

ScenarioArrow(key) ==
    /\ phase = "ready"
    /\ LastEvent \notin {"none", "handleInput"}
    /\ ArrowsPressed < MaxArrows
    /\ Logged(HandleKeyDown(This, key))

NextScenario ==
    \/ InitManager
    \/ LoadConfig
    \/ FinishInit
    \/ \E value \in HistoryLines : ScenarioType(value)
    \/ ScenarioEnter
    \/ \E key \in {"ArrowUp", "ArrowDown"} : ScenarioArrow(key)
    \/ TimerFires

SpecScenario == Init /\ [][NextScenario]_vars

(***************************************************************************)
(* The dispatch scenarios: a user who types one of DispatchLines, waits    *)
(* for the suggestions or not, and submits the line.                       *)
(***************************************************************************)

\* "ls -a" is a key of its own in one configuration; "toString" is a name
\* every object inherits; "$&" is a substitution pattern of String.replace
DispatchLines ==
    { s_ls_a, <<"f","o","o">>, <<"t","o","S","t","r","i","n","g">>, <<"$","&">>,
      s_cd \o <<" ">> \o <<"s","u","b">>, <<"X">>, <<" ">> }

MaxDispatchCommands == 2

NextDispatch ==
    \/ InitManager
    \/ LoadConfig
    \/ FinishInit
    \/ \E value \in DispatchLines : Input(value)
    \/ KeyDown("Enter", MaxDispatchCommands)
    \/ TimerFires

SpecDispatch == Init /\ [][NextDispatch]_vars

(***************************************************************************)
(* The switch scenarios: a user who types, submits switch-distro or uses   *)
(* the distro selector, while the debounce and reload timers run.          *)
(***************************************************************************)

SwitchLines ==
    { <<"c">>, s_switch_distro \o <<" ">> \o s_deb, s_switch_distro \o <<" ">> \o s_arch,
      s_switch_distro \o <<" ","t","o","S","t","r","i","n","g">> }

MaxSwitchCommands == 1

NextSwitch ==
    \/ InitManager
    \/ LoadConfig
    \/ FinishInit
    \/ \E value \in SwitchLines : Input(value)
    \/ KeyDown("Enter", MaxSwitchCommands)
    \/ TimerFires
    \/ \E selected \in {s_arch, s_deb} : SelectDistro(selected)
    \/ Reload

SpecSwitch == Init /\ [][NextSwitch]_vars

(***************************************************************************)
(* The shell scenarios: a user who walks the file system.                  *)
(***************************************************************************)

ShellLines ==
    { s_mkdir \o <<" ","x">>, s_touch \o <<" ","x">>, s_rm \o <<" ">> \o s_a_txt,
      s_cat \o <<" ">> \o s_a_txt, s_ls, s_pwd,
      s_cd, s_cd \o <<" ">> \o s_tilde, s_cd \o <<" ","s","u","b">>, s_cd \o <<" ",".",".">>,
      s_cd \o <<" ">> \o s_a_txt,
      s_cd \o <<" ","/","h","o","m","e","/","b","o","b","/","d","o","c","s","/">>,
      s_cd \o <<" ","d","e","e","p">> }

MaxShellCommands == 2

NextShell ==
    \/ InitManager
    \/ LoadConfig
    \/ FinishInit
    \/ \E value \in ShellLines : Input(value)
    \/ KeyDown("Enter", MaxShellCommands)

SpecShell == Init /\ [][NextShell]_vars

(***************************************************************************)
(* The command scenarios: a user who runs the commands of the table, with  *)
(* good and bad operands.                                                  *)
(***************************************************************************)

\* apt carries an action tag handleCommand has no case for; sub is a
\* directory of one configuration and missing in the others
CommandLines ==
    { <<"a","p","t">>, <<"f","o","o">>, s_help, s_history,
      s_cat, s_cat \o <<" ","m","i","s","s","i","n","g",".","t","x","t">>,
      s_cat \o <<" ","s","u","b">>, s_cat \o <<" ">> \o s_a_txt,
      s_ls, s_ls \o <<" ">> \o s_a_txt, s_ls \o <<" ","s","u","b">>,
      s_switch_distro, s_switch_distro \o <<" ","n","o","p","e">> }

MaxTableCommands == 2

NextCommands ==
    \/ InitManager
    \/ LoadConfig
    \/ FinishInit
    \/ \E value \in CommandLines : Input(value)
    \/ KeyDown("Enter", MaxTableCommands)

SpecCommands == Init /\ [][NextCommands]_vars

(***************************************************************************)
(* The path scenarios: a user who names paths of every form.               *)
(***************************************************************************)

\* docs is listed as docs/ in the home of one configuration, which declares
\* its entries under the key ~/docs/
PathLines ==
    { s_ls, s_ls \o <<" ",".">>, s_ls \o <<" ","x","/","/","/","y">>,
      s_cat \o <<" ","/","e","t","c","/","m","o","t","d">>,
      s_cd \o <<" ","d","o","c","s">>, s_cd \o <<" ","s","u","b">>, s_cd \o <<" ",".",".">>,
      s_cd \o <<" ","/","h","o","m","e","/","b","o","b","/","d","o","c","s","/">> }

MaxPathCommands == 2

NextPaths ==
    \/ InitManager
    \/ LoadConfig
    \/ FinishInit
    \/ \E value \in PathLines : Input(value)
    \/ KeyDown("Enter", MaxPathCommands)

SpecPaths == Init /\ [][NextPaths]_vars

(***************************************************************************)
(* The completion scenarios: one page load of a user who types prefixes    *)
(* in either letter case and completes them with Tab.                      *)
(***************************************************************************)

\* "X" and "xo" are prefixes of the key Xorg but for the letter case; "LS"
\* is one of ls; "zz" is a prefix of no key
CompletionInputs == { <<>>, <<"X">>, <<"x","o">>, <<"L","S">>, <<"c","l">>, <<"z","z">> }

NextCompletion == Session(CompletionInputs, MaxCommands)

SpecCompletion == Init /\ [][NextCompletion]_vars

(***************************************************************************)
(* Properties                                                              *)
(***************************************************************************)

\* the latest handler was processCommand on a non-empty line
Submitted == lastOp = "processCommand" /\ dispatched.how # "none"

\* the line it submitted, trimmed: processCommand leaves it last in the history
SubmittedLine == commandHistory[Len(commandHistory)]

\* the output of the latest handler after its echo of the command line
Answer == SubSeq(out, 2, Len(out))

\* C1: for every non-empty submitted line executeCommand dispatches the table
\* entry keyed by the whole trimmed line when the table has one, otherwise
\* the entry keyed by the first token when the table has one, otherwise it
\* emits the command-not-found message, and nothing else.
C1_DispatchOrder ==
    Submitted =>
        LET full == SubmittedLine
            command == Head(SplitWS(full))
        IN  IF HasOwn(commands, full)
            THEN dispatched.how = "full" /\ dispatched.key = full
            ELSE IF HasOwn(commands, command)
            THEN dispatched.how = "base" /\ dispatched.key = command
            ELSE /\ dispatched.how = "notfound"
                 /\ Len(Answer) = 1
                 /\ Answer[1].className = "output-error"

\* C2: a submitted line whose full text and first token are both no keys of
\* the table yields exactly one line of output, styled as an error: the
\* command-not-found template with the text {cmd} replaced by the first token.
C2_NotFoundMessage ==
    Submitted =>
        LET full == SubmittedLine
            command == Head(SplitWS(full))
            template == system.commandNotFound
            at == IndexOf(template, s_cmd)
            expected == IF at = 0 THEN template
                        ELSE SubSeq(template, 1, at - 1) \o command
                             \o SubSeq(template, at + Len(s_cmd), Len(template))
        IN  (~HasOwn(commands, full) /\ ~HasOwn(commands, command))
                => Answer = << [text |-> expected, className |-> "output-error"] >>

\* C3: once enhanceConfig has built the table from the distro table D
\* (rawCommands) and the core defaults C, every key of D maps to D's
\* descriptor unchanged, and every key of C alone maps to C's descriptor.
C3_DistroWins ==
    phase \in {"setup", "ready"} =>
        LET core == IF variant = "multi" THEN CoreCommands ELSE AdditionalCommands(system.user)
        IN  /\ \A i \in 1..Len(rawCommands) :
                /\ HasOwn(commands, rawCommands[i].k)
                /\ Own(commands, rawCommands[i].k) = rawCommands[i].v
            /\ \A i \in 1..Len(core) :
                ~HasOwn(rawCommands, core[i].k)
                    => /\ HasOwn(commands, core[i].k)
                       /\ Own(commands, core[i].k) = core[i].v

\* the lines the user of the scripted scenario has submitted so far, trimmed
SubmittedLines ==
    LET at == SelectSeq([i \in 1..Len(trace) |-> i],
                        LAMBDA i : trace[i].op = "processCommand")
    IN  [j \in 1..Len(at) |-> Trim(trace[at[j] - 1].input)]

\* C4: the history is the sequence of submitted lines with every run of equal
\* consecutive lines reduced to one entry: the same line twice in a row is
\* one entry, A, B, A are three, no two adjacent entries are equal and equal
\* entries that are not adjacent are all kept.
C4_HistoryDedup ==
    LET RECURSIVE Squeeze(_)
        Squeeze(lines) ==
            IF Len(lines) <= 1 THEN lines
            ELSE LET front == Squeeze(SubSeq(lines, 1, Len(lines) - 1))
                 IN  IF front[Len(front)] = lines[Len(lines)]
                     THEN front ELSE Append(front, lines[Len(lines)])
    IN  /\ commandHistory = Squeeze(SubmittedLines)
        /\ \A i \in 1..(Len(commandHistory) - 1) : commandHistory[i] # commandHistory[i + 1]

\* C4 witness: ls, ls, pwd, ls were submitted and the history is ls, pwd, ls
C4_TwiceThenAgain ==
    /\ SubmittedLines = <<s_ls, s_ls, s_pwd, s_ls>>
    /\ commandHistory = <<s_ls, s_pwd, s_ls>>

\* C5: every submitted non-empty line increments the command counter by one
\* and leaves the history cursor equal to the history length, and the call
\* of executeCommand already finds the counter, the history and the cursor
\* updated.
C5_CountedBeforeHandler ==
    [][ (lastOp' = "processCommand" /\ Trim(inputValue) # <<>>)
            => /\ commandCount' = commandCount + 1
               /\ historyIndex' = Len(commandHistory')
               /\ dispatched'.how \in {"full", "base", "notfound"}
               /\ dispatched'.count = commandCount + 1
               /\ dispatched'.hlen = Len(commandHistory')
               /\ dispatched'.hidx = Len(commandHistory') ]_vars

\* C5 witness: the second line submitted was cd sub, which failed
C5_SecondLineFailed ==
    /\ lastOp = "processCommand"
    /\ commandCount = 2
    /\ historyIndex = Len(commandHistory)
    /\ dispatched.key = s_cd
    /\ dispatched.count = 2
    /\ Len(Answer) = 1 /\ Answer[1].className = "output-error"

\* the user typed ls and submitted it, typed pwd and submitted it, then
\* pressed history-up twice and history-down once
LsPwdUpUpDown ==
    /\ [i \in 1..Len(trace) |-> trace[i].op]
         = <<"handleInput", "processCommand", "handleInput", "processCommand",
             "navigateHistory:up", "navigateHistory:up", "navigateHistory:down">>
    /\ trace[1].input = s_ls
    /\ trace[3].input = s_pwd

\* C6 as stated: after ls and pwd, history-up twice and history-down once
\* leave the input value equal to ls.
C6_EndsAtLs == LsPwdUpUpDown => inputValue = s_ls

\* C6: after ls and pwd, history-up twice and history-down once leave the
\* input value equal to pwd (and the cursor on the second entry).
C6_EndsAtPwd == LsPwdUpUpDown => (inputValue = s_pwd /\ historyIndex = 1)

\* C6 witness: the scenario has been played to its end
C6_Played == LsPwdUpUpDown /\ commandHistory = <<s_ls, s_pwd>> /\ inputValue # <<>>

\* C7: the cursor stays within 0..length of the history; history-up
\* decrements it only when it is positive, history-down increments it only
\* when it is below the length, and after a navigation on a non-empty history
\* the input value is the entry at the cursor, or empty at the end.
C7_CursorInRange ==
    /\ [](0 <= historyIndex /\ historyIndex <= Len(commandHistory))
    /\ [][ /\ lastOp' = "navigateHistory:up"
                => historyIndex' = IF historyIndex > 0 /\ commandHistory # <<>>
                                   THEN historyIndex - 1 ELSE historyIndex
           /\ lastOp' = "navigateHistory:down"
                => historyIndex' = IF historyIndex < Len(commandHistory)
                                   THEN historyIndex + 1 ELSE historyIndex
           /\ (lastOp' \in {"navigateHistory:up", "navigateHistory:down"}
               /\ commandHistory # <<>>)
                => /\ commandHistory' = commandHistory
                   /\ inputValue' = IF historyIndex' = Len(commandHistory) THEN <<>>
                                    ELSE commandHistory[historyIndex' + 1] ]_vars

\* C7 witness: history-down has brought the cursor back to the end of a
\* history of two or more entries, and the input is empty again
C7_BackAtEnd ==
    /\ lastOp = "navigateHistory:down"
    /\ Len(commandHistory) >= 2
    /\ historyIndex = Len(commandHistory)
    /\ inputValue = <<>>
    /\ \E i \in 1..Len(trace) : trace[i].op = "navigateHistory:up"

\* C8: getCommandSuggestions(prefix) returns the first five keys of the
\* table, in table order, that start with the prefix when both are compared
\* without regard to letter case, each with its description.
C8_CaseInsensitivePrefix ==
    [][ lastOp' = "showSuggestions"
            => LET prefix == timeout[1]
                   matching == SelectSeq(Keys(commands),
                                   LAMBDA cmd : StartsWith(ToLowerCase(cmd), ToLowerCase(prefix)))
                   kept == SubSeq(matching, 1, Min(SuggestLimit, Len(matching)))
               IN  suggestions' =
                       [i \in 1..Len(kept) |->
                           [command |-> kept[i],
                            description |-> IF Own(commands, kept[i]).description # <<>>
                                            THEN Own(commands, kept[i]).description
                                            ELSE <<"No description">>]] ]_vars

\* C9: the selection is -1 or an index of the suggestion set; with the set
\* shown ArrowDown moves -1 to 0, i to i + 1 and the last index to 0, ArrowUp
\* moves -1 and 0 to the last index and i to i - 1, and every rendering or
\* hiding of the set resets the selection to -1.
C9_SelectionWraps ==
    /\ [](selectedSuggestionIndex = -1
          \/ (0 <= selectedSuggestionIndex /\ selectedSuggestionIndex < Len(suggestions)))
    /\ [][ LET n == Len(suggestions)
               i == selectedSuggestionIndex
           IN  /\ lastOp' = "navigateSuggestions:down"
                    => /\ n >= 1
                       /\ selectedSuggestionIndex' = IF i = -1 \/ i = n - 1 THEN 0 ELSE i + 1
                       /\ suggestions' = suggestions
               /\ lastOp' = "navigateSuggestions:up"
                    => /\ n >= 1
                       /\ selectedSuggestionIndex' = IF i = -1 \/ i = 0 THEN n - 1 ELSE i - 1
                       /\ suggestions' = suggestions
               /\ (\/ lastOp' \in {"showSuggestions", "hideSuggestions", "processCommand",
                                   "interruptCommand"}
                   \/ (lastOp' = "handleInput" /\ inputValue' = <<>>)
                   \/ (lastOp' = "handleTabCompletion"
                       /\ Len(GetCommandSuggestions(commands, inputValue)) >= 1))
                    => selectedSuggestionIndex' = -1 ]_vars

\* C9 witness: ArrowUp has wrapped the selection to the last of two or more
\* suggestions
C9_WrappedToLast ==
    /\ lastOp = "navigateSuggestions:up"
    /\ Len(suggestions) >= 2
    /\ selectedSuggestionIndex = Len(suggestions) - 1

\* C10: Enter with a suggestion selected, or a click on an item, puts that
\* suggestion's command into the input, empties the suggestion set, resets
\* the selection to -1 and executes nothing: history, cursor, counter and
\* working directory stay as they are and nothing is written to the output.
C10_ApplyOnly ==
    [][ LET applied(i) ==
                /\ inputValue' = suggestions[i + 1].command
                /\ suggestions' = <<>>
                /\ ~suggestionsShown'
                /\ selectedSuggestionIndex' = -1
                /\ UNCHANGED <<commandHistory, historyIndex, commandCount, currentPath>>
                /\ dispatched' = NoDispatch
                /\ out' = <<>>
        IN  /\ lastOp' = "applySuggestion" => applied(selectedSuggestionIndex)
            /\ lastOp' = "click" => \E i \in 0..(Len(suggestions) - 1) : applied(i) ]_vars

\* C10 witness: Enter has applied the selected suggestion cat in place of the
\* typed c, and no command has run
C10_Applied ==
    /\ lastOp = "applySuggestion"
    /\ inputValue = s_cat
    /\ suggestions = <<>>
    /\ selectedSuggestionIndex = -1
    /\ commandCount = 0

\* the suggestions for prefix when keys and prefix are compared without
\* regard to letter case: at most SuggestLimit, in table order
CaseInsensitiveMatches(table, prefix) ==
    LET matching == SelectSeq(Keys(table),
                        LAMBDA cmd : StartsWith(ToLowerCase(cmd), ToLowerCase(prefix)))
        kept == SubSeq(matching, 1, Min(SuggestLimit, Len(matching)))
    IN  [i \in 1..Len(kept) |->
            [command |-> kept[i],
             description |-> IF Own(table, kept[i]).description # <<>>
                             THEN Own(table, kept[i]).description
                             ELSE <<"No description">>]]

\* C11: Tab with exactly one command matching the input puts that command
\* into the input and clears the suggestion set; with two or more it leaves
\* the input as it is and shows the matching set with no selection; with
\* none it changes neither the input nor the suggestion state.
C11_TabCompletes ==
    [][ lastOp' = "handleTabCompletion"
            => LET matches == CaseInsensitiveMatches(commands, inputValue)
               IN  IF Len(matches) = 1
                   THEN /\ inputValue' = matches[1].command
                        /\ suggestions' = <<>>
                        /\ ~suggestionsShown'
                        /\ selectedSuggestionIndex' = -1
                   ELSE IF Len(matches) >= 2
                   THEN /\ inputValue' = inputValue
                        /\ suggestions' = matches
                        /\ suggestionsShown'
                        /\ selectedSuggestionIndex' = -1
                   ELSE UNCHANGED <<inputValue, suggestions, suggestionsShown,
                                    selectedSuggestionIndex>> ]_vars

\* C12: every input event that arrives while a suggestion computation is
\* pending cancels it, an event that empties the input included: after the
\* event the only computation pending, if any, is the one for the new value;
\* and a computation only runs for the value of the latest input event.
C12_KeystrokeCancels ==
    [][ /\ lastOp' = "handleInput"
            => timeout' = IF inputValue' = <<>> THEN <<>> ELSE <<inputValue'>>
        /\ (lastOp' = "showSuggestions" /\ lastOp = "handleInput")
            => timeout = <<inputValue>> ]_vars

\* C13: a suggestion computation scheduled before a distro switch never
\* populates the suggestion state after the switch: the reload leaves no
\* computation pending, and until the new page has loaded its configuration
\* and attached its listeners none is pending and no suggestion is set.
C13_NoTimerAcrossSwitch ==
    /\ [](phase # "ready" => (timeout = <<>> /\ suggestions = <<>> /\ ~suggestionsShown))
    /\ [][ pageLoads' # pageLoads
            => (timeout' = <<>> /\ suggestions' = <<>> /\ ~suggestionsShown') ]_vars

\* C13 witness: the switch has completed (the page was reloaded with a
\* computation still pending, and the other distro is loaded) and no
\* computation is pending and no suggestion is set
C13_SwitchedWhilePending ==
    /\ pageLoads = 1
    /\ phase = "ready"
    /\ currentDistro = s_deb
    /\ trace # <<>> /\ trace[1].op = "reload:pending"
    /\ timeout = <<>>
    /\ suggestions = <<>>

\* the operand of the submitted line: its second word (<<>> when it has none)
Operand(line) == IF Len(SplitWS(line)) >= 2 THEN SplitWS(line)[2] ELSE <<>>

\* the file system setupFileSystemFromConfig (or the constructor) built at the
\* latest configuration load
LoadedFileSystem ==
    IF variant = "multi" THEN SetupFileSystemFromConfig(ConfigOf(currentDistro))
    ELSE BuiltinFileSystem

\* C14: no submitted command changes the file system between configuration
\* loads: it stays the mapping the load built; mkdir, touch and rm with an
\* operand emit exactly their success message.
C14_MutationsAreCosmetic ==
    /\ [](phase = "ready" => fileSystem = LoadedFileSystem)
    /\ [][ lastOp' = "processCommand" => fileSystem' = fileSystem ]_vars
    /\ [](Submitted /\ Operand(SubmittedLine) # <<>>
          => /\ SubmittedLine[1] = "m"
                => Answer = << [text |-> <<"Created directory: ">> \o Operand(SubmittedLine),
                                className |-> "output-success"] >>
             /\ SubmittedLine[1] = "t"
                => Answer = << [text |-> <<"Created file: ">> \o Operand(SubmittedLine),
                                className |-> "output-success"] >>
             /\ SubmittedLine[1] = "r"
                => Answer = << [text |-> <<"Removed: ">> \o Operand(SubmittedLine),
                                className |-> "output-warning"] >>)

\* C14 witness: rm a.txt was submitted, and the cat a.txt after it prints the
\* content of the file
C14_CatAfterRm ==
    /\ commandHistory = << s_rm \o <<" ">> \o s_a_txt, s_cat \o <<" ">> \o s_a_txt >>
    /\ Submitted
    /\ Answer = << [text |-> <<"hello">>, className |-> ""] >>

\* the last name of a path
Basename(path) == LET parts == SplitSlash(path) IN IF parts = <<>> THEN <<>> ELSE parts[Len(parts)]

\* C15: in the file system of a loaded terminal, for every path p other than
\* the root the parent path of p's node is a key of the mapping, the node
\* there is a directory, and its contents list p's last name.
C15_ParentLinks ==
    phase = "ready"
        => \A i \in 1..Len(fileSystem) :
              LET p == fileSystem[i].k
                  parent == fileSystem[i].v.parent
              IN  p # s_slash
                    => /\ HasOwn(fileSystem, parent)
                       /\ Own(fileSystem, parent).type = "directory"
                       /\ \E j \in 1..Len(Own(fileSystem, parent).contents) :
                             Own(fileSystem, parent).contents[j] = Basename(p)

\* C16: with ~ declared as a.txt and sub/ (and the file a.txt), ls in the
\* home directory prints one line with a.txt as a file and sub/ as a
\* directory.
C16_LsListsDeclared ==
    ( /\ Submitted
      /\ SubmittedLine = s_ls
      /\ variant = "multi"
      /\ currentDistro = s_arch
      /\ currentPath = s_home \o system.user )
        => Answer = << [text |-> <<"[file] ">> \o s_a_txt \o <<" ", " ">>
                                 \o <<"[dir] ">> \o <<"s","u","b">> \o s_slash,
                        className |-> ""] >>

\* C17: resolvePath('..') is the parent field of the node at the current
\* path wherever that is not the root (the current path itself when it has
\* no node); cd s in a directory d, for a subdirectory s materialised under
\* d (the node d/s whose parent is d), enters that node, and cd .. from a
\* directory whose parent is a directory returns to the parent: cd s then
\* cd .. restores d.
C17_ParentRoundTrip ==
    /\ []((phase = "ready" /\ currentPath # s_slash)
            => ResolvePath(This, <<".",".">>)
                 = (IF HasOwn(fileSystem, currentPath)
                    THEN Own(fileSystem, currentPath).parent ELSE currentPath))
    /\ [][ (lastOp' = "processCommand" /\ dispatched'.handler = s_changeDirectory)
            => /\ \A i \in 1..Len(fileSystem) :
                    ( /\ fileSystem[i].v.type = "directory"
                      /\ fileSystem[i].v.parent = currentPath
                      /\ HasOwn(fileSystem, currentPath)
                      /\ Operand(SubmittedLine') # <<>>
                      /\ fileSystem[i].k = currentPath \o s_slash \o Operand(SubmittedLine') )
                        => currentPath' = fileSystem[i].k
               /\ ( /\ Operand(SubmittedLine') = <<".",".">>
                    /\ HasOwn(fileSystem, currentPath)
                    /\ HasOwn(fileSystem, Own(fileSystem, currentPath).parent)
                    /\ Own(fileSystem, Own(fileSystem, currentPath).parent).type = "directory" )
                      => currentPath' = Own(fileSystem, currentPath).parent ]_vars

\* C18: cd without an argument, and cd ~, set the current path to the home
\* directory of the configured user, /home/<config.system.user>.
C18_CdHome ==
    [][ ( /\ lastOp' = "processCommand"
          /\ dispatched'.handler = s_changeDirectory
          /\ Operand(SubmittedLine') \in {<<>>, s_tilde} )
            => currentPath' = s_home \o system.user ]_vars

\* C19: a cd with an argument (other than ~) whose resolved target has no
\* node or a file node prints one error line and leaves the current path
\* unchanged; when the target is a directory node the current path becomes
\* the target and nothing is printed.
C19_CdValidates ==
    [][ ( /\ lastOp' = "processCommand"
          /\ dispatched'.handler = s_changeDirectory
          /\ Operand(SubmittedLine') \notin {<<>>, s_tilde} )
            => LET target == ResolvePath(This, Operand(SubmittedLine'))
               IN  IF HasOwn(fileSystem, target) /\ Own(fileSystem, target).type = "directory"
                   THEN currentPath' = target /\ Answer' = <<>>
                   ELSE /\ currentPath' = currentPath
                        /\ Len(Answer') = 1
                        /\ Answer'[1].className = "output-error" ]_vars

\* C19 witness: cd a.txt was refused in the home directory, which has the
\* file a.txt
C19_RefusedFile ==
    /\ Submitted
    /\ SubmittedLine = s_cd \o <<" ">> \o s_a_txt
    /\ currentPath = s_home \o system.user
    /\ HasOwn(fileSystem, currentPath \o s_slash \o s_a_txt)
    /\ Answer = << [text |-> <<"cd: ">> \o s_a_txt \o <<": Not a directory">>,
                    className |-> "output-error"] >>

\* C20: pwd, whose table entry has no action tag, prints exactly the current
\* path, whatever static output the entry carries.
C20_PwdIsLive ==
    ( /\ Submitted
      /\ SubmittedLine = s_pwd
      /\ HasOwn(commands, s_pwd)
      /\ Own(commands, s_pwd).action = <<>> )
        => Answer = << [text |-> currentPath, className |-> ""] >>

\* C20 witness: pwd after cd sub prints the subdirectory, while the entry's
\* output still holds the path of the configuration load
C20_PwdAfterCd ==
    /\ commandHistory = << s_cd \o <<" ","s","u","b">>, s_pwd >>
    /\ Submitted
    /\ currentPath = s_home_user \o <<"/","s","u","b">>
    /\ Own(commands, s_pwd).output = StrOutput(s_home_user)
    /\ Answer = << [text |-> currentPath, className |-> ""] >>

\* the table entry the latest submitted line was dispatched to
DispatchedEntry == Own(commands, dispatched.key)

\* the latest submitted line was dispatched to an own entry of the table
DispatchedOwn ==
    Submitted /\ dispatched.how \in {"full", "base"} /\ HasOwn(commands, dispatched.key)

\* C21: an entry that carries an action tag is routed to the handler of that
\* tag, whatever the tag: neither a built-in of the entry's name is run nor
\* the entry's static output emitted.
C21_TagRouted ==
    (DispatchedOwn /\ DispatchedEntry.action # <<>>)
        => dispatched.handler = DispatchedEntry.action

\* whether the line, submitted in the current state, is a failing command:
\* a missing operand, a path that is missing or of the wrong kind, an unknown
\* command, an unknown or missing distro name
Fails(line) ==
    LET name == SplitWS(line)[1]
        arg == Operand(line)
        target == IF arg = <<>> THEN currentPath ELSE ResolvePath(This, arg)
        isDir == HasOwn(fileSystem, target) /\ Own(fileSystem, target).type = "directory"
        isFile == HasOwn(fileSystem, target) /\ Own(fileSystem, target).type = "file"
    IN  IF ~HasOwn(commands, line) /\ ~HasOwn(commands, name) THEN TRUE
        ELSE IF HasOwn(commands, line) /\ line # name THEN FALSE
        ELSE IF name = s_cat THEN arg = <<>> \/ ~isFile
        ELSE IF name = s_ls THEN ~isDir
        ELSE IF name = s_cd THEN arg \notin {<<>>, s_tilde} /\ ~isDir
        ELSE IF name \in {s_mkdir, s_touch, s_rm} THEN arg = <<>>
        ELSE IF name = s_switch_distro /\ variant = "multi"
             THEN arg = <<>> \/ ~HasOwn(DistroManager.distributions, arg)
        ELSE FALSE

\* C22: every failing command is reported as exactly one output line, styled
\* as an error, and leaves the current path, the file system, the command
\* table and the distro (active and saved) unchanged.
C22_OneErrorLine ==
    [][ (lastOp' = "processCommand" /\ dispatched'.how # "none" /\ Fails(SubmittedLine'))
            => /\ Len(Answer') = 1
               /\ Answer'[1].className = "output-error"
               /\ UNCHANGED <<currentPath, fileSystem, commands, currentDistro,
                              storedDistro, reloadPending>> ]_vars

\* C23: cat prints, and nothing else: without an argument the missing
\* operand error; for an argument that resolves to no node the no-such-file
\* error with the argument as typed; for one that resolves to a directory
\* the is-a-directory error; otherwise the content of the file, as one block.
C23_CatCases ==
    [][ (lastOp' = "processCommand" /\ dispatched'.handler = s_cat)
            => LET arg == Operand(SubmittedLine')
                   target == ResolvePath(This, arg)
                   error(text) == << [text |-> text, className |-> "output-error"] >>
               IN  Answer' =
                     IF arg = <<>> THEN error(<<"cat: missing file operand">>)
                     ELSE IF ~HasOwn(fileSystem, target)
                     THEN error(<<"cat: ">> \o arg \o <<": No such file or directory">>)
                     ELSE IF Own(fileSystem, target).type = "directory"
                     THEN error(<<"cat: ">> \o arg \o <<": Is a directory">>)
                     ELSE << [text |-> Own(fileSystem, target).content, className |-> ""] >> ]_vars

\* C23 witness: cat sub, after a cat of a path that does not exist, was
\* answered with the is-a-directory error
C23_CatOfDirectory ==
    /\ Submitted
    /\ commandHistory = << s_cat \o <<" ","m","i","s","s","i","n","g",".","t","x","t">>,
                           s_cat \o <<" ","s","u","b">> >>
    /\ HasOwn(fileSystem, currentPath \o <<"/","s","u","b">>)
    /\ Answer = << [text |-> <<"cat: ">> \o <<"s","u","b">> \o <<": Is a directory">>,
                    className |-> "output-error"] >>

\* C24: ls without an argument lists the current path; for a target with no
\* node it prints the no-such-path error, for a file the not-a-directory
\* error; for a directory without children nothing, and otherwise one line
\* with the names of its contents in their order, each marked as a directory
\* exactly when the node at target/name is a directory, as a file otherwise.
C24_LsCases ==
    [][ (lastOp' = "processCommand" /\ dispatched'.handler = s_ls)
            => LET arg == Operand(SubmittedLine')
                   target == IF arg = <<>> THEN currentPath ELSE ResolvePath(This, arg)
                   names == Own(fileSystem, target).contents
                   isDir(name) ==
                       /\ HasOwn(fileSystem, target \o s_slash \o name)
                       /\ Own(fileSystem, target \o s_slash \o name).type = "directory"
                   mark(name) == IF isDir(name) THEN <<"[dir] ">> \o name \o s_slash
                                 ELSE <<"[file] ">> \o name
                   error(text) == << [text |-> text, className |-> "output-error"] >>
               IN  Answer' =
                     IF ~HasOwn(fileSystem, target)
                     THEN error(<<"ls: cannot access '">> \o (IF arg = <<>> THEN s_dot ELSE arg)
                                \o <<"': No such file or directory">>)
                     ELSE IF Own(fileSystem, target).type # "directory"
                     THEN error(<<"ls: ">> \o arg \o <<": Not a directory">>)
                     ELSE IF names = <<>> THEN <<>>
                     ELSE << [text |-> Join([i \in 1..Len(names) |-> mark(names[i])], <<" ", " ">>),
                              className |-> ""] >> ]_vars

\* C24 witness: ls listed a home directory that holds two files and, last,
\* a directory
C24_ListedBothKinds ==
    /\ Submitted
    /\ SubmittedLine = s_ls
    /\ Len(NodeOf(fileSystem, currentPath).contents) = 3
    /\ NodeOf(fileSystem, currentPath \o s_slash \o NodeOf(fileSystem, currentPath).contents[3]).type
         = "directory"
    /\ Len(Answer) = 1
    /\ Answer[1].className = ""

\* init() has reported a failure
InitFailed == phase = "failed" \/ (lastOp = "init" /\ out = <<InitError>>)

\* C25: the listeners are attached, and so a handler can run, only after
\* loadConfig and the setup delay have finished; a failed load of the
\* registry or of the configuration is reported once, nothing happens after
\* it (no retry, no listener), and the history, the command counter and the
\* current path keep the values the constructor gave them.
C25_NoCommandBeforeLoad ==
    /\ [](InitFailed => /\ phase = "failed"
                        /\ out = <<InitError>>
                        /\ commandHistory = <<>>
                        /\ commandCount = 0
                        /\ currentPath = s_home_user)
    /\ [][ ~InitFailed ]_vars
    /\ [][ /\ phase' = "ready" => phase \in {"setup", "ready"}
           /\ phase' = "setup" => phase = "config"
           /\ lastOp' \notin {"init", "none"} => phase = "ready" ]_vars

\* C25 witness: the registry was loaded and the load of the configuration
\* failed
C25_ConfigLoadFailed ==
    /\ phase = "failed"
    /\ variant = "multi"
    /\ currentDistro = s_deb
    /\ out = <<InitError>>
    /\ commandCount = 0

\* C26: a switch request that names a key of the registry other than the
\* active distro stores the key as the preference (and URL parameter) and
\* schedules a reload, and any other request leaves them alone, so that the
\* preference is the most recently requested valid key; the init() of a
\* reloaded page makes the preference the active distro, and its loadConfig
\* builds the command table, the file system and the current path
\* /home/<user> from that distro's configuration alone.
C26_SwitchRebuilds ==
    [][ /\ (lastOp' = "processCommand" /\ dispatched'.handler = s_switchDistro)
            => IF /\ HasOwn(DistroManager.distributions, Operand(SubmittedLine'))
                  /\ Operand(SubmittedLine') # currentDistro
               THEN /\ storedDistro' = Operand(SubmittedLine')
                    /\ urlDistro' = Operand(SubmittedLine')
                    /\ reloadPending'
               ELSE UNCHANGED <<storedDistro, urlDistro, reloadPending>>
        /\ lastOp' = "switchDistro"
            => /\ HasOwn(DistroManager.distributions, storedDistro')
               /\ storedDistro' # currentDistro
               /\ urlDistro' = storedDistro'
               /\ reloadPending'
        /\ (pageLoads >= 1 /\ phase = "manager" /\ phase' = "config")
            => (currentDistro' = storedDistro /\ storedDistro' = storedDistro)
        /\ (pageLoads >= 1 /\ phase = "config" /\ phase' = "setup")
            => LET config == ConfigOf(currentDistro)
                   home == s_home \o config.system.user
               IN  /\ currentDistro' = currentDistro
                   /\ currentPath' = home
                   /\ fileSystem' = SetupFileSystemFromConfig(config)
                   /\ commands' = EnhanceConfigMulti(config.commands, config.system.user, home)
      ]_vars

\* C27: init() makes the active distro the URL parameter when there is one,
\* else the saved preference, else the default of the registry, and the
\* default when that name is no key of the registry; it saves the result as
\* the preference; after a successful init() the active distro is a key of
\* the registry.
C27_ActiveDistroIsRegistered ==
    /\ []((phase = "ready" /\ variant = "multi")
            => HasOwn(DistroManager.distributions, currentDistro))
    /\ [][ (phase = "manager" /\ phase' = "config")
            => LET wanted == IF urlDistro # <<>> THEN urlDistro
                             ELSE IF storedDistro # <<>> THEN storedDistro
                             ELSE DistroManager.defaultDistro
                   expected == IF HasOwn(DistroManager.distributions, wanted)
                               THEN wanted ELSE DistroManager.defaultDistro
               IN  currentDistro' = expected /\ storedDistro' = expected ]_vars

\* C28: in the multi-distro variant the table a configuration load has built
\* has the key switch-distro with the action switchDistro and the key
\* list-distros with the action listDistros, whatever the distro declared.
C28_DistroCommandsPresent ==
    (variant = "multi" /\ phase \in {"setup", "ready"})
        => /\ HasOwn(commands, s_switch_distro)
           /\ Own(commands, s_switch_distro) = SwitchDistroCmd
           /\ HasOwn(commands, <<"l","i","s","t","-","d","i","s","t","r","o","s">>)
           /\ Own(commands, <<"l","i","s","t","-","d","i","s","t","r","o","s">>) = ListDistrosCmd

\* C28 witness: a table built from a configuration that declares
\* switch-distro with a static output and no action
C28_DeclaredSwitchReplaced ==
    /\ variant = "multi"
    /\ phase = "ready"
    /\ HasOwn(rawCommands, s_switch_distro)
    /\ Own(rawCommands, s_switch_distro).action = <<>>
    /\ Own(commands, s_switch_distro).action = s_switchDistro

\* C29: help prints, between its heading and its tips, one line per entry
\* of the table in the order of the table; the line holds the name of the
\* entry, then spaces only, then its description (a placeholder when it has
\* none), and the description starts at the same column on every line.
C29_HelpAligned ==
    [][ (lastOp' = "processCommand" /\ dispatched'.handler = s_help)
            => LET lines == [i \in 1..Len(commands) |-> Answer'[2 + i].text]
               IN  /\ Len(Answer') > 2 + Len(commands)
                   /\ \A i \in 1..Len(commands) :
                        LET name == commands[i].k
                            described == commands[i].v.description
                        IN  /\ Len(lines[i]) >= 2 + Len(name) + 1
                            /\ SubSeq(lines[i], 3, 2 + Len(name)) = name
                            /\ \A j \in 1..(Len(lines[i]) - 1) :
                                 (j <= 2 \/ j > 2 + Len(name)) => lines[i][j] = " "
                            /\ lines[i][Len(lines[i])]
                                 = (IF described # <<>> THEN described[1] ELSE "No description")
                   /\ \A i, j \in 1..Len(commands) : Len(lines[i]) = Len(lines[j]) ]_vars

\* C30: the history command prints only the no-history message when the
\* history is empty; otherwise, under one heading, one line per entry of the
\* history, oldest first, each with its number, counted from 1, before the
\* entry.
C30_HistoryNumbered ==
    [][ (lastOp' = "processCommand" /\ dispatched'.handler = s_showHistory)
            => IF commandHistory' = <<>>
               THEN Answer' = << [text |-> <<"No commands in history">>, className |-> ""] >>
               ELSE /\ Len(Answer') = 1 + Len(commandHistory')
                    /\ \A i \in 1..Len(commandHistory') :
                         \E k \in 0..(2 + HistoryPad) :
                            Answer'[1 + i].text
                              = Spaces(k) \o NumStr(i) \o <<" ">> \o commandHistory'[i] ]_vars

\* C30 witness: history, submitted after ls, listed both lines
C30_ListedTwo ==
    /\ Submitted
    /\ commandHistory = << s_ls, s_history >>
    /\ dispatched.handler = s_showHistory
    /\ Len(Answer) = 3

\* C31: for every current path, resolvePath of '.' and of an empty input is
\* the current path, and resolvePath of an input that starts with '/' is the
\* input itself, whether the file system has that path or not (the input is
\* the operand of the line in the input field).
C31_DotAndAbsolute ==
    phase = "ready"
        => LET input == Operand(inputValue)
           IN  /\ ResolvePath(This, <<>>) = currentPath
               /\ ResolvePath(This, s_dot) = currentPath
               /\ (input # <<>> /\ input[1] = "/") => ResolvePath(This, input) = input

\* C31 witness: in a subdirectory, ls . listed the subdirectory, and the
\* absolute path of a file that does not exist is typed
C31_DotInSubdirectory ==
    /\ phase = "ready"
    /\ commandHistory = << s_cd \o <<" ","s","u","b">>, s_ls \o <<" ",".">> >>
    /\ currentPath = s_home_user \o <<"/","s","u","b">>
    /\ ResolvePath(This, s_dot) = s_home_user \o <<"/","s","u","b">>
    /\ Operand(inputValue) = <<"/","e","t","c","/","m","o","t","d">>
    /\ ~HasOwn(fileSystem, Operand(inputValue))

\* C32: after the file system is built from a configuration, every directory
\* path the configuration declares is the key of a directory node whose
\* contents are the entries of that declaration that do not end in '/', in
\* whatever order the paths are declared.
C32_DeclaredDirectories ==
    (phase = "ready" /\ variant = "multi")
        => \A i \in 1..Len(ConfigOf(currentDistro).filesystem) :
              LET decl == ConfigOf(currentDistro).filesystem[i]
                  fullPath == Replace(decl.k, s_tilde, s_home \o system.user)
              IN  /\ HasOwn(fileSystem, fullPath)
                  /\ Own(fileSystem, fullPath).type = "directory"
                  /\ Own(fileSystem, fullPath).contents = PlainEntries(decl.v)

\* C33: for an input that does not start with '/' and is none of '', '.' and
\* '..', resolvePath returns a path with no doubled separator left in it
\* (the input is the operand of the line in the input field).
C33_NoDoubledSeparator ==
    phase = "ready"
        => LET input == Operand(inputValue)
           IN  (input # <<>> /\ input[1] # "/" /\ input \notin {s_dot, <<".",".">>})
                   => IndexOf(ResolvePath(This, input), s_dslash) = 0

\* C34: once the configuration is loaded, the current path is always the key
\* of a directory node of the file system, after every sequence of cd
\* commands and for every configured user name.
C34_CwdIsDirectory ==
    phase = "ready"
        => /\ HasOwn(fileSystem, currentPath)
           /\ Own(fileSystem, currentPath).type = "directory"

\* C35: processCommand (Enter) and interruptCommand (Ctrl+C) leave the input
\* empty, the suggestion list empty and the dropdown hidden, and whatever
\* happens next, unless it is an input event or Tab, leaves the list empty
\* and the dropdown hidden, a debounced computation that was pending included.
C35_QuietAfterClear ==
    [][ /\ lastOp' \in {"processCommand", "interruptCommand"}
            => (inputValue' = <<>> /\ suggestions' = <<>> /\ ~suggestionsShown')
        /\ ( /\ lastOp \in {"processCommand", "interruptCommand"}
             /\ lastOp' \notin {"handleInput", "handleTabCompletion"} )
            => (suggestions' = <<>> /\ ~suggestionsShown') ]_vars

\* C36: submitting an empty or whitespace-only line runs no command and leaves
\* the history, the history cursor, the command counter and the current path
\* as they were; a non-empty line advances the counter by one and nothing
\* else changes it, so the counter is the number of non-empty lines submitted
\* and is never less than the length of the history.
C36_BlankLineIsInert ==
    /\ [](commandCount >= Len(commandHistory))
    /\ [][ /\ lastOp' = "processCommand"
               => IF Trim(inputValue) = <<>>
                  THEN /\ dispatched'.how = "none"
                       /\ UNCHANGED <<commandHistory, historyIndex, commandCount, currentPath,
                                      commands, fileSystem>>
                  ELSE /\ dispatched'.how # "none"
                       /\ commandCount' = commandCount + 1
           /\ commandCount' # commandCount => lastOp' = "processCommand" ]_vars

\* C36 witness: a whitespace-only line was submitted after two equal commands
C36_BlankAfterCommands ==
    /\ lastOp = "processCommand"
    /\ dispatched.how = "none"
    /\ inputValue = <<>>
    /\ commandCount = 2
    /\ commandHistory = << <<"f","o","o">> >>
    /\ historyIndex = 1

\* C37: whenever showHistory runs for a submitted line, the line is already
\* recorded: the history is not empty, its last entry is the line just
\* submitted, the last line of the listing ends with that line, and the
\* no-history message is not printed.
C37_HistoryListsItself ==
    [][ (lastOp' = "processCommand" /\ dispatched'.handler = s_showHistory)
            => LET line == Trim(inputValue)
                   last == Answer'[Len(Answer')].text
               IN  /\ commandHistory' # <<>>
                   /\ commandHistory'[Len(commandHistory')] = line
                   /\ Len(Answer') >= 2
                   /\ Len(last) > Len(line)
                   /\ SubSeq(last, Len(last) - Len(line) + 1, Len(last)) = line
                   /\ \A i \in 1..Len(Answer') :
                         Answer'[i].text # <<"No commands in history">> ]_vars

\* C37 witness: history was the first line submitted and is listed as entry 1
C37_FirstLineIsHistory ==
    /\ Submitted
    /\ dispatched.handler = s_showHistory
    /\ commandCount = 1
    /\ commandHistory = << s_history >>
    /\ Len(Answer) = 2
    /\ Answer[1].text = <<"Command History:">>

\* C38: the built-in handlers of help, echo, cat, ls and pwd run only for a
\* line dispatched to a table entry of that name; the table has such an entry
\* only when the configuration declares it, and a line whose first token is
\* one of these names, with no entry for the name or the line, is answered by
\* the command-not-found message alone.
C38_BuiltinsNeedEntry ==
    /\ [](phase = "ready"
            => \A name \in BuiltinNames : HasOwn(commands, name) <=> HasOwn(rawCommands, name))
    /\ [][ (lastOp' = "processCommand" /\ dispatched'.how # "none")
             => LET name == SplitWS(SubmittedLine')[1]
                IN  /\ dispatched'.handler \in BuiltinNames
                        => /\ dispatched'.how \in {"full", "base"}
                           /\ dispatched'.key = dispatched'.handler
                           /\ dispatched'.key \in {name, SubmittedLine'}
                           /\ HasOwn(commands, dispatched'.key)
                    /\ ( /\ name \in BuiltinNames
                         /\ ~HasOwn(rawCommands, name)
                         /\ ~HasOwn(rawCommands, SubmittedLine') )
                        => /\ dispatched'.how = "notfound"
                           /\ Answer' = << [text |-> Replace(system.commandNotFound, s_cmd, name),
                                            className |-> "output-error"] >> ]_vars

\* C38 witness: help, submitted where the configuration declares no help
\* entry, was answered by command-not-found
C38_HelpNotDeclared ==
    /\ Submitted
    /\ SubmittedLine = s_help
    /\ ~HasOwn(rawCommands, s_help)
    /\ dispatched.how = "notfound"
    /\ Len(Answer) = 1

\* C39: only the entries the table was built with are looked up: a line whose
\* first token (and whole text) is no own key of the table, a name every
\* object inherits included, is answered by the command-not-found message
\* alone, and every suggestion names an own key of the table.
C39_OnlyOwnEntries ==
    /\ [](\A i \in 1..Len(suggestions) : HasOwn(commands, suggestions[i].command))
    /\ [][ ( /\ lastOp' = "processCommand"
             /\ dispatched'.how # "none"
             /\ ~HasOwn(commands, SubmittedLine')
             /\ ~HasOwn(commands, SplitWS(SubmittedLine')[1]) )
             => /\ dispatched'.how = "notfound"
                /\ Len(Answer') = 1
                /\ Answer'[1].className = "output-error" ]_vars

\* C40: with a configuration that lists docs/ in the home directory and
\* declares the entries of the subdirectory under the key ~/docs/, cd docs
\* from the home directory succeeds and the ls that follows prints a line
\* that names every plain entry declared for the subdirectory.
C40_LsAfterCdListsDeclared ==
    ( /\ variant = "multi"
      /\ Submitted
      /\ commandHistory = << s_cd \o <<" ","d","o","c","s">>, s_ls >>
      /\ HasOwn(ConfigOf(currentDistro).filesystem, <<"~","/","d","o","c","s","/">>) )
        => LET declared == PlainEntries(Own(ConfigOf(currentDistro).filesystem,
                                            <<"~","/","d","o","c","s","/">>))
           IN  /\ currentPath # s_home \o system.user
               /\ HasOwn(fileSystem, currentPath)
               /\ Len(Answer) = 1
               /\ Answer[1].className = ""
               /\ \A i \in 1..Len(declared) : IndexOf(Answer[1].text, declared[i]) > 0

====
